---- MODULE Spec2Model ----
(***************************************************************************)
(* A model of the per-call execution logic of swan-http: the code that the *)
(* swan-macro generators emit for one declared HTTP method, and the        *)
(* InterceptorCache of swan-common.                                        *)
(*                                                                         *)
(* The repository holds three generators of call code:                     *)
(*   "method"  swan-macro/src/generator/method.rs (the one lib.rs wires    *)
(*             in): build, retry loop, status check.  It emits no hook     *)
(*             call and no cache access.                                   *)
(*   "legacy"  swan-macro/src/generate.rs: before-hooks, one transport     *)
(*             call, after-hooks, status check.  No retry.                 *)
(*   "zero"    swan-macro/src/optimization/zero_cost.rs,                   *)
(*             execute_with_interceptors: hooks around one transport call, *)
(*             errors passed on with `?`.  Its call-site interceptor is    *)
(*             the handle produced by the cached access block of           *)
(*             swan-macro/src/request/cache_interceptor.rs.                *)
(* and the client method warmup_interceptor ("warmup").                    *)
(*                                                                         *)
(* A task stands at a suspension point of its async function (a hook that  *)
(* runs, a request in flight, a sleep) or inside the cache access block;   *)
(* the straight-line code between two such points is one step.             *)
(***************************************************************************)
EXTENDS Integers, Sequences, FiniteSets, TLC

\* ---------------------------------------------------------------- bounds
NumCalls == 2
NumTypes == 2
MaxAttemptsBound == 3
MaxBase == 4
MaxN == 4
MaxWrap == 2
MaxStatus == 620
MaxItems == 4
MaxArgs == 2
MaxPieces == 3
MaxSent == 6

Tasks == 1..NumCalls
Solo == {t \in Tasks : t = 1}
Types == 1..NumTypes

\* ------------------------------------------------------------- vocabulary
\* The outcome of one transport call: a status code, or TransportFailure
\* for Err(e) of client.execute.
TransportFailure == 0
StatusCodes == {200, 404, 408, 429, 503}
Outcomes == StatusCodes \cup {TransportFailure}
Verbs == {"GET", "PUT", "DELETE", "POST"}

\* A vacant cache entry / no handle / a descriptor without call-site type.
NoInst == 0
NoType == 0
\* The mutex is free.
NoTask == 0

VARIABLES
    pc,         \* task -> where the task stands
    desc,       \* task -> the descriptor of the call it runs
    attempt,    \* task -> the retry loop's variable `attempt`
    sent,       \* task -> number of client.execute invocations (history)
    replies,    \* task -> the outcomes received, in order (history)
    result,     \* task -> what the call returned
    trace,      \* task -> hook, transport and sleep events, in order (history)
    failed,     \* task -> the hook that returned Err, "none" if none (history)
    effective,  \* task -> the client its `effective_client` is bound to
    via,        \* task -> the clients its requests were executed by (history)
    body,       \* task -> the declared result type and the body it read
    slept,      \* task -> the milliseconds of its sleeps, in order
    method_client, \* overridden call-site -> state of its static OnceLock
    built,      \* overridden call-site -> clients constructed for it (history)
    cache,      \* InterceptorCache.method_interceptors: type -> instance
    lock,       \* holder of the interceptor_cache mutex
    created,    \* type -> number of T::default() constructions (history)
    requested,  \* types for which get_or_create has run (history)
    firstInst,  \* type -> the instance first created for it (history)
    found,      \* task -> what its entry() lookup saw
    handle,     \* task -> the Arc its get_or_create returned
    policy,     \* the RetryPolicy a library function is called on
    ret,        \* the last library call made on it and what it returned
    raw_config, \* the retry literal of the attribute under expansion
    parsed,     \* what RetryConfig::parse made of it: "none", "ok", "err"
    fn_inputs,  \* the argument names of the declared method, self left out
    template,   \* its url template or one of its header templates
    code,       \* the code generated for the template
    arg_values, \* the values of the arguments of one call
    output,     \* the string that call formatted
    url_cache,  \* StringPool.url_cache: template -> cached url
    pool        \* task -> its get_or_cache_url call: arguments, place, return

callVars == <<pc, desc, attempt, sent, replies, result, trace, failed,
              effective, via, body, slept>>
onceVars == <<method_client, built>>
cacheVars == <<cache, lock, created, requested, firstInst, found, handle>>
libVars == <<policy, ret>>
buildVars == <<raw_config, parsed, fn_inputs, template, code, arg_values,
               output>>
confVars == <<raw_config, parsed>>
tmplVars == <<fn_inputs, template, code, arg_values, output>>
poolVars == <<url_cache, pool>>
envVars == <<libVars, buildVars, onceVars, poolVars>>
vars == <<pc, desc, attempt, sent, replies, result, trace, failed,
          effective, via, body, slept, method_client, built,
          cache, lock, created, requested, firstInst, found, handle,
          policy, ret, raw_config, parsed,
          fn_inputs, template, code, arg_values, output, url_cache, pool>>

\* ------------------------------------------------------------- transports
\* The proxy attribute of a call-site: none, or ProxyConfig::Disabled,
\* ::Simple (a url) or ::Full (url and credentials).  The client declares
\* one method for each.
Overrides == {"disabled", "simple", "full"}
\* A reqwest::Client: self.client, or the n-th client constructed for the
\* static METHOD_CLIENT of an overridden call-site.
Client(site, n) == [site |-> site, n |-> n]
NoClient == Client("", 0)
SelfClient == Client("none", 0)

\* ------------------------------------------------------------ descriptors
NoDesc ==
    [kind |-> "none", verb |-> "GET", hasPolicy |-> FALSE, maxAttempts |-> 0,
     idemOnly |-> FALSE, cloneable |-> TRUE, hasG |-> FALSE, hasM |-> FALSE,
     mtype |-> NoType, proxy |-> "none"]

\* Calls of the generated method of generator/method.rs: any verb, with or
\* without a retry policy, a request whose try_clone succeeds or not, and
\* interceptors registered or not.
MethodDescs ==
    {[kind |-> "method", verb |-> v, hasPolicy |-> TRUE, maxAttempts |-> n,
      idemOnly |-> io, cloneable |-> cl, hasG |-> g, hasM |-> m,
      mtype |-> NoType, proxy |-> "none"] :
        v \in Verbs, n \in 0..MaxAttemptsBound, io \in BOOLEAN,
        cl \in BOOLEAN, g \in BOOLEAN, m \in BOOLEAN}
    \cup
    {[kind |-> "method", verb |-> v, hasPolicy |-> FALSE, maxAttempts |-> 0,
      idemOnly |-> FALSE, cloneable |-> TRUE, hasG |-> g, hasM |-> m,
      mtype |-> NoType, proxy |-> "none"] :
        v \in Verbs, g \in BOOLEAN, m \in BOOLEAN}

LegacyDescs ==
    {[kind |-> "legacy", verb |-> "GET", hasPolicy |-> FALSE,
      maxAttempts |-> 0, idemOnly |-> FALSE, cloneable |-> TRUE,
      hasG |-> g, hasM |-> m, mtype |-> NoType, proxy |-> "none"] :
        g \in BOOLEAN, m \in BOOLEAN}

ZeroDescs ==
    {[kind |-> "zero", verb |-> "GET", hasPolicy |-> FALSE,
      maxAttempts |-> 0, idemOnly |-> FALSE, cloneable |-> TRUE,
      hasG |-> g, hasM |-> (ty # NoType), mtype |-> ty, proxy |-> "none"] :
        g \in BOOLEAN, ty \in Types \cup {NoType}}

WarmupDescs ==
    {[kind |-> "warmup", verb |-> "GET", hasPolicy |-> FALSE,
      maxAttempts |-> 0, idemOnly |-> FALSE, cloneable |-> TRUE,
      hasG |-> FALSE, hasM |-> FALSE, mtype |-> ty, proxy |-> "none"] :
        ty \in Types}

\* ---------------------------------------------------------------- results
NoResult ==
    [tag |-> "none", status |-> 0, attempts |-> 0, scope |-> "", phase |-> ""]
Res(tag, status, attempts, scope, phase) ==
    [tag |-> tag, status |-> status, attempts |-> attempts,
     scope |-> scope, phase |-> phase]

\* No body read: the call has not reached response.bytes().
NoBody == [ok_type |-> "", bytes |-> "none"]

\* No call of the pool made by the task.
NoPoolCall ==
    [stage |-> "idle", template |-> <<>>, params |-> <<>>, hit |-> FALSE,
     url |-> <<>>]

\* ------------------------------------------------------------------- Init
\* A client after construction: no call made, empty caches, free mutex.
InitClient ==
    /\ url_cache = {}
    /\ pool = [t \in Tasks |-> NoPoolCall]
    /\ pc = [t \in Tasks |-> "idle"]
    /\ desc = [t \in Tasks |-> NoDesc]
    /\ attempt = [t \in Tasks |-> 0]
    /\ sent = [t \in Tasks |-> 0]
    /\ replies = [t \in Tasks |-> <<>>]
    /\ result = [t \in Tasks |-> NoResult]
    /\ trace = [t \in Tasks |-> <<>>]
    /\ failed = [t \in Tasks |-> "none"]
    /\ effective = [t \in Tasks |-> NoClient]
    /\ via = [t \in Tasks |-> {}]
    /\ body = [t \in Tasks |-> NoBody]
    /\ slept = [t \in Tasks |-> <<>>]
    /\ method_client = [s \in Overrides |-> "uninit"]
    /\ built = [s \in Overrides |-> 0]
    /\ cache = [ty \in Types |-> NoInst]
    /\ lock = NoTask
    /\ created = [ty \in Types |-> 0]
    /\ requested = {}
    /\ firstInst = [ty \in Types |-> NoInst]
    /\ found = [t \in Tasks |-> NoInst]
    /\ handle = [t \in Tasks |-> NoInst]

\* impl Default for RetryPolicy; exponential_base counts halves (2.0) and
\* jitter_ratio twentieths (0.1), see BaseDen and JitterDen.
DefaultPolicy ==
    [max_attempts |-> 3, base_delay_ms |-> 100, max_delay_ms |-> 30000,
     exponential_base |-> 4, jitter_ratio |-> 2, idempotent_only |-> TRUE]

\* A u32 held as its top bit and its low 31 bits.
U32(hi, lo) == [hi |-> hi, lo |-> lo]

NoCall == [op |-> "none", status |-> 0, verb |-> "GET", n |-> U32(0, 0),
           draw |-> 0, flag |-> FALSE, ms |-> 0]

\* No retry attribute has been handed to the parser.
NoLiteral == [form |-> "none", items |-> <<>>]

\* No template has been expanded and no string formatted.
NoTemplate == [target |-> "none", sep |-> FALSE, text |-> <<>>]
NoCode == [kind |-> "none", format_str |-> <<>>, format_args |-> <<>>]
NotFormatted == <<"-">>

InitTemplate ==
    /\ fn_inputs = <<>>
    /\ template = NoTemplate
    /\ code = NoCode
    /\ arg_values = <<>>
    /\ output = NotFormatted

InitBuild ==
    /\ raw_config = NoLiteral
    /\ parsed = "none"
    /\ InitTemplate

Init ==
    /\ InitClient
    /\ InitBuild
    /\ policy = DefaultPolicy
    /\ ret = NoCall

\* ------------------------------------------- retry engine (generated code)
\* fn should_retry_response(status: u16) -> bool
should_retry_response(status) ==
    \/ (status >= 500 /\ status <= 599)
    \/ status = 429
    \/ status = 408

\* Variant: every verb counted as idempotent.
EveryVerbIdempotent(verb) == TRUE

\* RetryProcessor::generate_idempotent_check
generate_idempotent_check(verb) ==
    IF verb \in {"GET", "PUT", "DELETE"} THEN TRUE ELSE FALSE

\* const IS_IDEMPOTENT: bool = #idempotent_check
IS_IDEMPOTENT(d) ==
    IF d.idemOnly THEN generate_idempotent_check(d.verb) ELSE TRUE

\* Variant: an inclusive range, 0..=MAX_ATTEMPTS.
LoopInclusive(a, max) == a <= max

\* for attempt in 0..MAX_ATTEMPTS
LoopContinues(a, max) == a < max

\* Variant: attempt < MAX_ATTEMPTS, a retry scheduled after the last attempt.
AttemptsLeftOffByOne(a, max) == a < max

\* attempt < MAX_ATTEMPTS - 1 (evaluated only inside the loop body, where
\* MAX_ATTEMPTS >= 1, so the u32 subtraction does not wrap)
AttemptsLeft(a, max) == a < max - 1

\* if should_retry_response(status) && attempt < MAX_ATTEMPTS - 1 && IS_IDEMPOTENT
StatusRetryGate(status, a, d) ==
    /\ should_retry_response(status)
    /\ AttemptsLeft(a, d.maxAttempts)
    /\ IS_IDEMPOTENT(d)

\* Variant: the Err(e) arm returns at once, transport errors never retried.
NeverRetryErrors(a, d) == FALSE

\* Variant: the Err(e) arm without the IS_IDEMPOTENT conjunct.
ErrorGateWithoutIdempotency(a, d) == a < d.maxAttempts - 1

\* if attempt < MAX_ATTEMPTS - 1 && IS_IDEMPOTENT   (the Err(e) arm)
ErrorRetryGate(a, d) ==
    /\ AttemptsLeft(a, d.maxAttempts)
    /\ IS_IDEMPOTENT(d)

\* A task's next place and, when that place is "done", what it returns.
Conf(p, r) == [pc |-> p, res |-> r]

\* reqwest's StatusCode::is_success
is_success(status) == status >= 200 /\ status <= 299

\* The declared Ok types generate_type_conversion tells apart: String,
\* Vec<u8>, and every other type ("Json": serde_json::from_slice).
OkTypes == {"String", "Vec<u8>", "Json"}
\* What response.bytes().await gives: an error, the JSON text of a value
\* of the declared type, or other bytes.
BodyBytes == {"unreadable", "valid", "invalid"}

\* Variant: every conversion taken to succeed.
conversion_unchecked(ok_type, bytes) == TRUE

\* generate_type_conversion: String::from_utf8_lossy(&bytes).to_string()
\* and bytes.to_vec() cannot fail; serde_json::from_slice::<T>(&bytes)?
\* fails on bytes that are no JSON text of a T.
generate_type_conversion(ok_type, bytes) ==
    IF ok_type \in {"String", "Vec<u8>"} THEN TRUE ELSE bytes = "valid"

\* if response.status().is_success() { response.bytes().await .. } else
\* { Err("Request failed with status: {}") }
StatusResult(status) ==
    IF is_success(status)
    THEN Conf("body", NoResult)
    ELSE Conf("done", Res("http_status", status, 0, "", ""))

\* let bytes = match response.bytes().await {..}; let result =
\* #type_conversion; Ok(result)
BodyResult(status, ok_type, bytes) ==
    IF bytes = "unreadable"
    THEN Res("read_body", status, 0, "", "")
    ELSE IF generate_type_conversion(ok_type, bytes)
         THEN Res("success", status, 0, "", "")
         ELSE Res("decode", status, 0, "", "")

\* The head of one loop iteration up to the transport call: the range
\* check, request.try_clone(), client.execute(request_clone).  When the
\* range is exhausted with no response stored, the code after the loop
\* returns "Retry loop completed without successful response".
EnterLoop(d, a) ==
    IF LoopContinues(a, d.maxAttempts)
    THEN IF d.cloneable
         THEN Conf("net", NoResult)
         ELSE Conf("done", Res("no_clone", 0, 0, "", ""))
    ELSE Conf("done", Res("no_response", 0, 0, "", ""))

\* The generated method up to its first transport call: request_builder
\* .build(), then the retry block (or the single execute without policy).
MethodStart(d, buildOk) ==
    IF ~buildOk THEN Conf("done", Res("build", 0, 0, "", ""))
    ELSE IF d.hasPolicy THEN EnterLoop(d, 0)
    ELSE Conf("net", NoResult)

\* match self.client.execute(request_clone).await { Ok(resp) .. Err(e) .. }
MethodReply(d, a, o) ==
    IF d.hasPolicy
    THEN IF o # TransportFailure
         THEN IF StatusRetryGate(o, a, d)
              THEN Conf("delay", NoResult)
              ELSE StatusResult(o)
         ELSE IF ErrorRetryGate(a, d)
              THEN Conf("delay", NoResult)
              ELSE Conf("done", Res("transport", 0, a + 1, "", ""))
    ELSE IF o # TransportFailure
         THEN StatusResult(o)
         ELSE Conf("done", Res("exec_failed", 0, 0, "", ""))

\* ------------------------------------------------ interceptor pipelines
HookPcs == {"g_before", "m_before", "m_after", "g_after"}
\* Places whose entry is an event of the call's trace.
TracedPcs == HookPcs \cup {"net", "delay"}
\* Places where the async function is suspended in an .await.
SuspendPcs == HookPcs \cup {"net", "delay", "body"}
\* Places inside the cached access block { let mut cache = lock; ... }.
AccessPcs == {"entry", "orinsert", "release"}

\* The order of the stages of generate.rs and of execute_with_interceptors;
\* a stage whose interceptor is absent (match .. None =>) is passed over.
\* "send" is request.build() followed by client.execute; "finish" is the
\* code after the last after-hook.
AfterMAfter(d) == IF d.hasG THEN "g_after" ELSE "finish"
AfterNetOk(d) == IF d.hasM THEN "m_after" ELSE AfterMAfter(d)
AfterGBefore(d) == IF d.hasM THEN "m_before" ELSE "send"
AfterStart(d) == IF d.hasG THEN "g_before" ELSE AfterGBefore(d)

StageAfter(d, p) ==
    CASE p = "g_before" -> AfterGBefore(d)
      [] p = "m_before" -> "send"
      [] p = "m_after" -> AfterMAfter(d)
      [] p = "g_after" -> "finish"

\* What each pipeline returns once its last stage is over: generate.rs
\* checks the status; execute_with_interceptors hands the response back.
FinalResult(d, status) ==
    IF d.kind = "zero"
    THEN Conf("done", Res("response", status, 0, "", ""))
    ELSE StatusResult(status)

ResolveStage(d, s, buildOk, status) ==
    IF s = "send"
    THEN IF buildOk
         THEN Conf("net", NoResult)
         ELSE Conf("done", Res("build", 0, 0, "", ""))
    ELSE IF s = "finish"
         THEN FinalResult(d, status)
         ELSE Conf(s, NoResult)

\* Variant: every hook failure reported as the global before-hook's.
HookErrorOneMessage(p) == [tag |-> "hook", status |-> 0, attempts |-> 0,
                           scope |-> "global", phase |-> "before"]

\* generate.rs: Err(e) => return Err(anyhow!("Global Interceptor
\* before_request failed: {}", e)) and its three siblings.
LegacyHookError(p) ==
    CASE p = "g_before" -> Res("hook", 0, 0, "global", "before")
      [] p = "m_before" -> Res("hook", 0, 0, "call-site", "before")
      [] p = "m_after" -> Res("hook", 0, 0, "call-site", "after")
      [] p = "g_after" -> Res("hook", 0, 0, "global", "after")

\* zero_cost.rs: `.await?` returns the hook's own error, unwrapped.
HookFailure(d, p) ==
    IF d.kind = "legacy"
    THEN LegacyHookError(p)
    ELSE Res("hook", 0, 0, "untagged", "untagged")

\* A returning hook: on Ok the next stage, on Err the call returns.
HookOutcome(d, p, ok, buildOk, status) ==
    IF ok
    THEN ResolveStage(d, StageAfter(d, p), buildOk, status)
    ELSE Conf("done", HookFailure(d, p))

\* The transport's answer in a pipeline without retry.
PipelineReply(d, o) ==
    IF o = TransportFailure
    THEN IF d.kind = "legacy"
         THEN Conf("done", Res("request_failed", 0, 0, "", ""))
         ELSE Conf("done", Res("exec_failed", 0, 0, "", ""))
    ELSE ResolveStage(d, AfterNetOk(d), TRUE, o)

\* The status of the response the call holds (0 before any response).
LastStatus(t) ==
    IF replies[t] = <<>> THEN 0 ELSE replies[t][Len(replies[t])]

\* ------------------------------------------------------ InterceptorCache
\* A fresh Arc::new(T::default()): an identity no earlier instance has.
NewInst(ty) == NumTypes * created[ty] + ty

\* Variant: no mutual exclusion around the cache.
LockAlwaysGranted(t) == TRUE

\* self.interceptor_cache.lock(): the mutex admits one holder.
CanLock(t) == lock = NoTask

\* Variant: the guard outlives the access block.
GuardKept(t) == t

\* The MutexGuard `cache` is a local of the access block (and of the
\* `if let` of warmup_interceptor): it is dropped where the block ends.
GuardDropped(t) == NoTask

\* Variant: insert(..) in place of or_insert_with(..).
AlwaysInsert(seen, ty) == NumTypes * created[ty] + ty

\* .or_insert_with(|| Arc::new(T::default())): construct only if vacant.
OrInsertWith(seen, ty) == IF seen = NoInst THEN NewInst(ty) ELSE seen

\* InterceptorCache::size
size == Cardinality({ty \in Types : cache[ty] # NoInst})

\* ------------------------------------------- RetryPolicy (swan-common)
\* f64 values are held as exact fractions: exponential_base = k / BaseDen,
\* jitter_ratio = k / JitterDen, fastrand::f64() = k / DrawDen with
\* 0 <= k < DrawDen.  (Every value used here is exact in an f64 or differs
\* from it by less than the truncation to whole milliseconds resolves.)
BaseDen == 2
JitterDen == 20
DrawDen == 4
Draws == 0..(DrawDen - 1)

\* i32::MAX, the largest value of the low 31 bits.
I32Max == 2147483647

\* The policies handed to the library: RetryConfig::parse_exponential_config
\* stores whatever value.parse() yields, with no range check, so bases
\* below 1.0 and max_delay below base_delay are among them.
Policies ==
    [max_attempts : {0, 3}, base_delay_ms : {1, 100},
     max_delay_ms : {50, 1000}, exponential_base : 1..MaxBase,
     jitter_ratio : {0, 2, 10}, idempotent_only : BOOLEAN]

\* Attempt numbers passed to calculate_delay: the first ones and the last
\* ones of the u32 range.
Attempts ==
    {U32(0, k) : k \in 0..MaxN} \cup
    {U32(1, I32Max - k) : k \in 0..(MaxWrap - 1)}

Statuses == 0..MaxStatus

\* attempt - 1 on a u32 (attempt # 0)
U32Sub1(n) ==
    IF n.lo > 0 THEN U32(n.hi, n.lo - 1) ELSE U32(0, I32Max)

\* `x as i32`: the same 32 bits read as two's complement.
AsI32(n) == IF n.hi = 0 THEN n.lo ELSE n.lo - I32Max - 1

RECURSIVE Pow(_, _)
Pow(b, k) == IF k = 0 THEN 1 ELSE b * Pow(b, k - 1)

\* f64::powi of base / BaseDen: a negative exponent gives the reciprocal.
powi(base, e) ==
    IF e >= 0
    THEN [num |-> Pow(base, e), den |-> Pow(BaseDen, e)]
    ELSE [num |-> Pow(BaseDen, 0 - e), den |-> Pow(base, 0 - e)]

\* self.base_delay_ms as f64 * self.exponential_base.powi((attempt - 1) as i32)
exponential_delay(p, n) ==
    LET x == powi(p.exponential_base, AsI32(U32Sub1(n)))
    IN [num |-> p.base_delay_ms * x.num, den |-> x.den]

\* exponential_delay.min(self.max_delay_ms as f64)
capped_delay(p, n) ==
    LET d == exponential_delay(p, n)
    IN IF d.num <= p.max_delay_ms * d.den
       THEN d
       ELSE [num |-> p.max_delay_ms, den |-> 1]

\* if self.jitter_ratio > 0.0 { fastrand::f64() * capped_delay *
\* self.jitter_ratio } else { 0.0 }, as a fraction over the denominator
\* capped.den * JitterDen * DrawDen
jitter(p, n, r) ==
    IF p.jitter_ratio > 0
    THEN r * capped_delay(p, n).num * p.jitter_ratio
    ELSE 0

\* RetryPolicy::calculate_delay; Duration::from_millis((capped_delay +
\* jitter) as u64): the cast drops the fraction.
calculate_delay(p, n, r) ==
    IF n = U32(0, 0) THEN 0
    ELSE (capped_delay(p, n).num * JitterDen * DrawDen + jitter(p, n, r))
            \div (capped_delay(p, n).den * JitterDen * DrawDen)

\* The copy of the arithmetic emitted by swan-macro (request/retry.rs
\* generate_delay_calculation_code).
\* Variant: the exponent taken as attempt, not attempt - 1.
retry_delay_late(n, base_delay_ms, max_delay_ms, exponential_base, jitter_ratio, r) ==
    IF n = U32(0, 0) THEN 0
    ELSE LET x == powi(exponential_base, AsI32(n))
             capped == IF base_delay_ms * x.num <= max_delay_ms * x.den
                       THEN [num |-> base_delay_ms * x.num, den |-> x.den]
                       ELSE [num |-> max_delay_ms, den |-> 1]
         IN capped.num \div capped.den

\* fn calculate_retry_delay(attempt: u32, base_delay_ms: u64,
\* max_delay_ms: u64, exponential_base: f64, jitter_ratio: f64) -> u64,
\* emitted into the generated code (n is its `attempt`); r is what fastrand::f64() draws.  The sum capped_delay +
\* jitter is a fraction over capped.den * JitterDen * DrawDen and `as u64`
\* drops its fractional part.
calculate_retry_delay(n, base_delay_ms, max_delay_ms, exponential_base, jitter_ratio, r) ==
    IF n = U32(0, 0) THEN 0
    ELSE LET x == powi(exponential_base, AsI32(U32Sub1(n)))
             capped == IF base_delay_ms * x.num <= max_delay_ms * x.den
                       THEN [num |-> base_delay_ms * x.num, den |-> x.den]
                       ELSE [num |-> max_delay_ms, den |-> 1]
             scale == JitterDen * DrawDen
             jit == IF jitter_ratio > 0
                    THEN r * capped.num * jitter_ratio
                    ELSE 0
         IN (capped.num * scale + jit) \div (capped.den * scale)

\* Variant: 500.. with no upper end.
should_retry_status_open(p, status) ==
    status >= 500 \/ status = 429 \/ status = 408

\* RetryPolicy::should_retry_status(&self, status: u16)
should_retry_status(p, status) ==
    \/ (status >= 500 /\ status <= 599)
    \/ status = 429
    \/ status = 408

\* Variant: only GET counted as idempotent.
only_get_idempotent(verb) == verb = "GET"

\* RetryPolicy::is_idempotent_method
is_idempotent_method(verb) ==
    IF verb \in {"GET", "PUT", "DELETE"} THEN TRUE ELSE FALSE

\* ------------------------------------------- RetryConfig (swan-common)
\* A retry literal is its form, the text before "(", and its parameter
\* list split at the commas, each item trimmed.  An item is `key=text`
\* (split_once('=') succeeds) or a bare text (key = NoKey).  A text is a
\* body followed by a unit: the body is digits ("int", value n), a decimal
\* fraction ("dec", n hundredths, as in 0.15), true or false ("bool",
\* n = 1 or 0), other letters ("word") or nothing ("none"); the unit is
\* "ms", "s", another letter ("x") or nothing ("").
NoKey == ""
Txt(kind, n, unit) == [kind |-> kind, n |-> n, unit |-> unit]
Item(key, text) == [key |-> key, text |-> text]
EmptyItem == Item(NoKey, Txt("none", 0, ""))

Failed == [ok |-> FALSE, v |-> 0]
Parsed(v) == [ok |-> TRUE, v |-> v]

\* str::parse::<u32>() and ::<u64>(): digits and nothing else
parse_int(text) ==
    IF text.kind = "int" /\ text.unit = "" THEN Parsed(text.n) ELSE Failed

\* str::parse::<f64>(), in hundredths
parse_f64(text) ==
    IF text.unit # "" THEN Failed
    ELSE IF text.kind = "int" THEN Parsed(100 * text.n)
    ELSE IF text.kind = "dec" THEN Parsed(text.n)
    ELSE Failed

\* str::parse::<bool>()
parse_bool(text) ==
    IF text.kind = "bool" /\ text.unit = "" THEN Parsed(text.n) ELSE Failed

\* RetryConfig::parse_duration: "..ms", "..s", and any other text parsed
\* as a number of milliseconds
parse_duration(text) ==
    IF text.unit = "ms" THEN parse_int(Txt(text.kind, text.n, ""))
    ELSE IF text.unit = "s"
    THEN LET seconds == parse_int(Txt(text.kind, text.n, ""))
         IN IF seconds.ok THEN Parsed(seconds.v * 1000) ELSE Failed
    ELSE parse_int(text)

\* parts[i] of the simplified form is the whole item: an item holding
\* "=" is neither a number nor a duration.
part_int(item) == IF item.key = NoKey THEN parse_int(item.text) ELSE Failed
part_duration(item) ==
    IF item.key = NoKey THEN parse_duration(item.text) ELSE Failed

Rejected == [ok |-> FALSE, policy |-> DefaultPolicy]
Accepted(p) == [ok |-> TRUE, policy |-> p]

\* One field set from a parse result (`?` returns the error).
SetField(p, field, r) ==
    IF r.ok THEN Accepted([p EXCEPT ![field] = r.v]) ELSE Rejected

\* The `match key` of parse_exponential_config.
exponential_key(p, key, text) ==
    CASE key = "max_attempts" -> SetField(p, "max_attempts", parse_int(text))
      [] key = "base_delay" ->
            SetField(p, "base_delay_ms", parse_duration(text))
      [] key = "max_delay" ->
            SetField(p, "max_delay_ms", parse_duration(text))
      [] key = "exponential_base" ->
            LET r == parse_f64(text)
            IN SetField(p, "exponential_base",
                        [r EXCEPT !.v = (@ * BaseDen) \div 100])
      [] key = "jitter_ratio" ->
            LET r == parse_f64(text)
            IN SetField(p, "jitter_ratio",
                        [r EXCEPT !.v = (@ * JitterDen) \div 100])
      [] key = "idempotent_only" ->
            LET r == parse_bool(text)
            IN IF r.ok THEN Accepted([p EXCEPT !.idempotent_only = (r.v = 1)])
               ELSE Rejected
      [] OTHER -> Rejected

\* The else branch of parse_exponential_config: parts[0] and parts[1] of
\* the whole list, then `break`.
simplified_format(p, items) ==
    LET first == SetField(p, "max_attempts", part_int(items[1]))
    IN IF ~first.ok THEN Rejected
       ELSE IF Len(items) >= 2
       THEN SetField(first.policy, "base_delay_ms", part_duration(items[2]))
       ELSE first

\* The loop of parse_exponential_config from item i on.
RECURSIVE exponential_loop(_, _, _)
exponential_loop(p, items, i) ==
    IF i > Len(items) THEN Accepted(p)
    ELSE IF items[i] = EmptyItem THEN exponential_loop(p, items, i + 1)
    ELSE IF items[i].key # NoKey
    THEN LET r == exponential_key(p, items[i].key, items[i].text)
         IN IF r.ok THEN exponential_loop(r.policy, items, i + 1)
            ELSE Rejected
    ELSE simplified_format(p, items)

parse_exponential_config(items) == exponential_loop(DefaultPolicy, items, 1)

\* The `match key` of parse_fixed_config.
fixed_key(p, key, text) ==
    CASE key = "max_attempts" -> SetField(p, "max_attempts", parse_int(text))
      [] key = "delay" ->
            LET delay == parse_duration(text)
            IN IF delay.ok
               THEN Accepted([p EXCEPT !.base_delay_ms = delay.v,
                                       !.max_delay_ms = delay.v])
               ELSE Rejected
      [] OTHER -> Rejected

\* The loop of parse_fixed_config from item i on; an item without "=" is
\* passed over.
RECURSIVE fixed_loop(_, _, _)
fixed_loop(p, items, i) ==
    IF i > Len(items) THEN Accepted(p)
    ELSE IF items[i] = EmptyItem \/ items[i].key = NoKey
    THEN fixed_loop(p, items, i + 1)
    ELSE LET r == fixed_key(p, items[i].key, items[i].text)
         IN IF r.ok THEN fixed_loop(r.policy, items, i + 1) ELSE Rejected

\* let mut policy = RetryPolicy::default(); policy.exponential_base = 1.0;
parse_fixed_config(items) ==
    fixed_loop([DefaultPolicy EXCEPT !.exponential_base = BaseDen], items, 1)

\* RetryConfig::parse_policy_string
parse_policy_string(lit) ==
    IF lit.form = "exponential" THEN parse_exponential_config(lit.items)
    ELSE IF lit.form = "fixed" THEN parse_fixed_config(lit.items)
    ELSE Rejected

\* RetryPolicy::fixed(max_attempts, delay_ms)
fixed(max_attempts, delay_ms) ==
    [max_attempts |-> max_attempts, base_delay_ms |-> delay_ms,
     max_delay_ms |-> delay_ms, exponential_base |-> BaseDen,
     jitter_ratio |-> 0, idempotent_only |-> TRUE]

\* The items the literals are written with.
Items ==
    { Item(NoKey, Txt("int", 5, "")),               \* 5
      Item(NoKey, Txt("int", 200, "ms")),           \* 200ms
      Item(NoKey, Txt("int", 100, "")),             \* 100
      EmptyItem,
      Item("max_attempts", Txt("int", 5, "")),      \* max_attempts=5
      Item("delay", Txt("int", 100, "ms")),         \* delay=100ms
      Item("max_delay", Txt("int", 30, "s")),       \* max_delay=30s
      Item("max_delay", Txt("int", 10, "x")),       \* max_delay=10x
      Item("delay", Txt("word", 0, "")),            \* delay=abc
      Item("jitter_ratio", Txt("dec", 15, "")),     \* jitter_ratio=0.15
      Item("exponential_base", Txt("dec", 50, "")), \* exponential_base=0.5
      Item("bogus", Txt("int", 1, "")) }            \* bogus=1

Forms == {"exponential", "fixed", "unknown_strategy"}

\* The literals of at most n items (split(',') yields at least one item,
\* the empty one for an empty list).
Literals(n) ==
    {[form |-> f, items |-> q] :
        f \in Forms, q \in UNION {[1..k -> Items] : k \in 1..n}}

\* ------------------------------- DynamicParamsProcessor (swan-macro)
\* A string is a sequence of atoms: the braces "{" and "}", identifiers,
\* and pieces of other text without braces.
LBrace == "{"
RBrace == "}"
NoArg == 0

\* format!("param{}", index)
PosKey(index) == <<"param0", "param1", "param2", "param3">>[index + 1]

\* The identifiers arguments are named with.
Names == {"user_id", "post_id", "param0", "param1"}
MapKeys == Names \cup {PosKey(i) : i \in 0..3}

\* extract_parameters: the inserts of the loop from `index` on; an insert
\* under a key that is present replaces its value (HashMap::insert).  An
\* argument is denoted by its place in fn_inputs, counted from 1.
RECURSIVE insert_parameters(_, _, _)
insert_parameters(param_map, inputs, index) ==
    IF index >= Len(inputs) THEN param_map
    ELSE LET byName == [param_map EXCEPT ![inputs[index + 1]] = index + 1]
             byPos == [byName EXCEPT ![PosKey(index)] = index + 1]
         IN insert_parameters(byPos, inputs, index + 1)

extract_parameters(inputs) ==
    insert_parameters([k \in MapKeys |-> NoArg], inputs, 0)

\* has_placeholders: text.contains('{') && text.contains('}')
has_placeholders(text) ==
    /\ \E i \in 1..Len(text) : text[i] = LBrace
    /\ \E i \in 1..Len(text) : text[i] = RBrace

\* The place of the first "}" at or after i, Len(text) + 1 if there is none.
RECURSIVE closing(_, _)
closing(text, i) ==
    IF i > Len(text) \/ text[i] = RBrace THEN i ELSE closing(text, i + 1)

\* extract_placeholders from atom i on: after "{" everything up to the
\* next "}" is the placeholder, kept if it is not empty.
RECURSIVE placeholders_from(_, _)
placeholders_from(text, i) ==
    IF i > Len(text) THEN <<>>
    ELSE IF text[i] = LBrace
    THEN LET j == closing(text, i + 1)
             placeholder == SubSeq(text, i + 1, j - 1)
         IN (IF placeholder # <<>> THEN <<placeholder>> ELSE <<>>)
               \o placeholders_from(text, j + 1)
    ELSE placeholders_from(text, i + 1)

extract_placeholders(text) == placeholders_from(text, 1)

\* Variant: a placeholder no argument answers to resolves to the first
\* argument.
resolve_or_first(placeholder, param_map) ==
    IF Len(placeholder) = 1 /\ placeholder[1] \in MapKeys
          /\ param_map[placeholder[1]] # NoArg
    THEN param_map[placeholder[1]]
    ELSE 1

\* resolve_placeholder: param_map.get(placeholder).cloned()
resolve_placeholder(placeholder, param_map) ==
    IF Len(placeholder) = 1 /\ placeholder[1] \in MapKeys
    THEN param_map[placeholder[1]]
    ELSE NoArg

\* str::replace(from, to) from atom i on: every occurrence, left to right
RECURSIVE replace(_, _, _, _)
replace(text, from, to, i) ==
    IF i > Len(text) THEN <<>>
    ELSE IF i + Len(from) - 1 <= Len(text)
              /\ SubSeq(text, i, i + Len(from) - 1) = from
    THEN to \o replace(text, from, to, i + Len(from))
    ELSE <<text[i]>> \o replace(text, from, to, i + 1)

CompileError == [kind |-> "error", format_str |-> <<>>, format_args |-> <<>>]

\* `for placeholder in placeholders` of both generators, from the k-th
\* placeholder on
RECURSIVE placeholder_loop(_, _, _, _, _)
placeholder_loop(placeholders, k, param_map, format_str, format_args) ==
    IF k > Len(placeholders)
    THEN [kind |-> IF format_args = <<>> THEN "literal" ELSE "format",
          format_str |-> format_str, format_args |-> format_args]
    ELSE LET param_ident == resolve_placeholder(placeholders[k], param_map)
         IN IF param_ident # NoArg
            THEN placeholder_loop(
                    placeholders, k + 1, param_map,
                    replace(format_str,
                            <<LBrace>> \o placeholders[k] \o <<RBrace>>,
                            <<LBrace, RBrace>>, 1),
                    Append(format_args, param_ident))
            ELSE CompileError

\* generate_dynamic_url_code, and what generate_dynamic_header_code does
\* with the value half of the header
generate_dynamic_code(text, inputs) ==
    IF ~has_placeholders(text)
    THEN [kind |-> "raw", format_str |-> text, format_args |-> <<>>]
    ELSE placeholder_loop(extract_placeholders(text), 1,
                          extract_parameters(inputs), text, <<>>)

generate_dynamic_url_code(url_template, inputs) ==
    generate_dynamic_code(url_template, inputs)

\* generate_dynamic_header_code: sep tells whether splitn(2, ": ") yields
\* two parts, text is the second part
generate_dynamic_header_code(header_template, inputs) ==
    IF ~header_template.sep THEN CompileError
    ELSE generate_dynamic_code(header_template.text, inputs)

\* format!(format_str, args..) from atom i on with the k-th argument next:
\* "{}" takes the next argument as it is displayed, "{{" and "}}" stand
\* for one brace, any other brace is refused when the macro is expanded,
\* and so is an argument that is not used.
RECURSIVE format_from(_, _, _, _, _)
format_from(format_str, i, args, k, values) ==
    IF i > Len(format_str)
    THEN [ok |-> k = Len(args) + 1, out |-> <<>>]
    ELSE LET next == IF i < Len(format_str) THEN format_str[i + 1] ELSE ""
             rest(r, atoms) == [ok |-> r.ok, out |-> atoms \o r.out]
         IN IF format_str[i] = LBrace /\ next = RBrace
            THEN IF k > Len(args) THEN [ok |-> FALSE, out |-> <<>>]
                 ELSE rest(format_from(format_str, i + 2, args, k + 1,
                                       values),
                           values[args[k]])
            ELSE IF format_str[i] \in {LBrace, RBrace}
            THEN IF next = format_str[i]
                 THEN rest(format_from(format_str, i + 2, args, k, values),
                           <<format_str[i]>>)
                 ELSE [ok |-> FALSE, out |-> <<>>]
            ELSE rest(format_from(format_str, i + 1, args, k, values),
                      <<format_str[i]>>)

\* Variant: the formatted string is formatted once more.
format_again(format_str, args, values) ==
    LET once == format_from(format_str, 1, args, 1, values)
        again == format_from(
                    replace(once.out, <<LBrace, PosKey(0), RBrace>>,
                            <<LBrace, RBrace>>, 1),
                    1, <<1>>, 1, values)
    IN IF once.ok /\ again.ok THEN again ELSE once

format(format_str, args, values) ==
    format_from(format_str, 1, args, 1, values)

\* The build goes through: no compile_error! was generated and the
\* format! of the generated code is accepted.
Builds(c) ==
    /\ c.kind \notin {"none", "error"}
    /\ c.kind = "format" =>
          format(c.format_str, c.format_args,
                 [i \in 1..Cardinality(MapKeys) |-> <<>>]).ok

\* self.base_url
BaseUrl == <<"base_url">>

\* The string the generated code yields: format!("{}{}", self.base_url,
\* ..) for a url, the header value for a header.
Formatted(t, c, values) ==
    LET inner == IF c.kind = "format"
                 THEN format(c.format_str, c.format_args, values).out
                 ELSE c.format_str
    IN IF t.target = "url" THEN BaseUrl \o inner ELSE inner

\* The templates, argument lists and values the generators are run on.
RECURSIVE Flatten(_)
Flatten(q) == IF q = <<>> THEN <<>> ELSE Head(q) \o Flatten(Tail(q))

Pieces ==
    {<<"/">>} \cup {<<LBrace, k, RBrace>> : k \in Names \cup {PosKey(0)}}
Texts == {Flatten(q) : q \in UNION {[1..k -> Pieces] : k \in 0..MaxPieces}}
Templates ==
    {[target |-> "url", sep |-> FALSE, text |-> x] : x \in Texts} \cup
    {[target |-> "header", sep |-> b, text |-> x] :
        b \in BOOLEAN, x \in Texts}
Inputs ==
    {q \in UNION {[1..k -> Names] : k \in 0..MaxArgs} :
        \A i, j \in 1..Len(q) : q[i] = q[j] => i = j}
ArgValues == {<<"7">>, <<"3">>, <<LBrace, PosKey(0), RBrace>>}

\* ------------------------------------------- StringPool (generated code)
\* The HashMap<String, String> of url_cache as its set of entries.
MapEntry(k, v) == [key |-> k, value |-> v]
\* cache.get(template)
Cached(m, k) == {e \in m : e.key = k}

\* cache.insert(template.to_string(), url.clone())
insert(m, k, v) == {e \in m : e.key # k} \cup {MapEntry(k, v)}

\* for (i, param) in params.iter().enumerate() { url = url.replace(
\* &format!("{{param{}}}", i), param) }, from the i-th param on (from 1)
RECURSIVE replace_params(_, _, _)
replace_params(url, params, i) ==
    IF i > Len(params) THEN url
    ELSE replace_params(
            replace(url, <<LBrace, PosKey(i - 1), RBrace>>, params[i], 1),
            params, i + 1)

\* The templates and parameter lists the pool is called with.
PoolTemplates ==
    { <<"/static">>,
      <<"/users/", LBrace, PosKey(0), RBrace>>,
      <<"/users/", LBrace, PosKey(0), RBrace, "/posts/",
        LBrace, PosKey(1), RBrace>> }
PoolParams == [1..MaxArgs -> {<<"7">>, <<"3">>}]

\* ---------------------------------------------------------------- actions
\* self.client.execute(..): the client of the struct, whatever
\* effective_client is bound to (request/retry.rs 25 and 74).
ExecuteClient(t) == SelfClient

\* The task goes to cfg.pc; entering a hook, a transport call or a sleep
\* is an event, entering "net" is one client.execute invocation, entering
\* "done" is the return of cfg.res.
Move(t, cfg) ==
    /\ pc' = [pc EXCEPT ![t] = cfg.pc]
    /\ result' = [result EXCEPT ![t] = cfg.res]
    /\ trace' = [trace EXCEPT ![t] =
                    IF cfg.pc \in TracedPcs THEN Append(@, cfg.pc) ELSE @]
    /\ sent' = [sent EXCEPT ![t] = IF cfg.pc = "net" THEN @ + 1 ELSE @]
    /\ via' = [via EXCEPT ![t] =
                  IF cfg.pc = "net" THEN @ \cup {ExecuteClient(t)} ELSE @]

\* generate_client_selection without proxy attribute:
\* let effective_client = &self.client;  (the other generators have no
\* such line, and with an attribute the static is consulted first)
client_selection(d, before) ==
    IF d.kind = "method" /\ d.proxy = "none" THEN SelfClient ELSE before

\* Where a call stands after the code that precedes its first suspension
\* or its first access to a static.
\* (execute_with_interceptors without interceptors executes the request it
\* was given: there is no build() to fail.)
InitialConf(d, buildOk) ==
    CASE d.kind = "method" ->
            IF d.proxy = "none" THEN MethodStart(d, buildOk)
            ELSE Conf("select", NoResult)
      [] d.kind = "legacy" -> ResolveStage(d, AfterStart(d), buildOk, 0)
      [] d.kind = "zero" ->
            IF d.hasM THEN Conf("lock", NoResult)
            ELSE ResolveStage(d, AfterStart(d), TRUE, 0)
      [] d.kind = "warmup" -> Conf("lock", NoResult)

\* A caller invokes the async function of a descriptor in D (or
\* warmup_interceptor); B holds the possible results of request.build().
Start(t, D, B) ==
    /\ pc[t] = "idle"
    /\ \E d \in D, b \in B :
          /\ desc' = [desc EXCEPT ![t] = d]
          /\ effective' = [effective EXCEPT ![t] = client_selection(d, @)]
          /\ Move(t, InitialConf(d, b))
    /\ UNCHANGED <<envVars, body, slept, attempt, replies, failed, cacheVars>>

\* let mut cache = self.interceptor_cache.lock().unwrap();
Acquire(t) ==
    /\ pc[t] = "lock"
    /\ CanLock(t)
    /\ lock' = t
    /\ pc' = [pc EXCEPT ![t] = "entry"]
    /\ UNCHANGED <<envVars, body, slept, desc, attempt, sent, replies, result, trace,
                   failed, effective, via,
                   cache, created, requested, firstInst, found, handle>>

\* get_or_create: self.method_interceptors.entry(type_id)
Entry(t) ==
    /\ pc[t] = "entry"
    /\ found' = [found EXCEPT ![t] = cache[desc[t].mtype]]
    /\ pc' = [pc EXCEPT ![t] = "orinsert"]
    /\ UNCHANGED <<envVars, body, slept, desc, attempt, sent, replies, result, trace,
                   failed, effective, via,
                   cache, lock, created, requested, firstInst, handle>>

\* get_or_create: .or_insert_with(|| Arc::new(T::default())).clone()
\* (warmup drops the returned Arc at once; handle keeps it as history)
OrInsert(t) ==
    /\ pc[t] = "orinsert"
    /\ LET ty == desc[t].mtype
           inst == OrInsertWith(found[t], ty)
       IN /\ cache' = [cache EXCEPT ![ty] = inst]
          /\ created' = [created EXCEPT ![ty] =
                            IF inst # found[t] THEN @ + 1 ELSE @]
          /\ firstInst' = [firstInst EXCEPT ![ty] =
                              IF @ = NoInst THEN inst ELSE @]
          /\ handle' = [handle EXCEPT ![t] = inst]
          /\ requested' = requested \cup {ty}
    /\ pc' = [pc EXCEPT ![t] = "release"]
    /\ UNCHANGED <<envVars, body, slept, desc, attempt, sent, replies, result, trace,
                   failed, effective, via,
                   lock, found>>

\* The end of the block: the guard drops; warmup_interceptor returns, a
\* call goes on to its pipeline.
Release(t, B) ==
    /\ pc[t] = "release"
    /\ lock' = GuardDropped(t)
    /\ \E b \in B :
          Move(t, IF desc[t].kind = "warmup"
                  THEN Conf("done", Res("warmed", 0, 0, "", ""))
                  ELSE ResolveStage(desc[t], AfterStart(desc[t]), b, 0))
    /\ UNCHANGED <<envVars, body, slept, desc, attempt, replies, failed, effective,
                   cache, created, requested, firstInst, found, handle>>

\* interceptor.before_request(..).await / after_response(..).await returns
\* Ok or Err (R holds the possible answers).
HookReturn(t, R, B) ==
    /\ pc[t] \in HookPcs
    /\ \E ok \in R, b \in B :
          /\ Move(t, HookOutcome(desc[t], pc[t], ok, b, LastStatus(t)))
          /\ failed' = [failed EXCEPT ![t] = IF ok THEN @ ELSE pc[t]]
    /\ UNCHANGED <<envVars, body, slept, desc, attempt, replies, effective, cacheVars>>

\* The constants of the generated retry block (const MAX_ATTEMPTS ..
\* JITTER_RATIO, IS_IDEMPOTENT): the values of the call-site's policy.
BlockConsts(d) ==
    [policy EXCEPT !.max_attempts = d.maxAttempts,
                   !.idempotent_only = d.idemOnly]

\* Variant: the loop index passed as it is.
delay_ms_of_index(d, a, r) ==
    LET c == [policy EXCEPT !.max_attempts = d.maxAttempts]
    IN calculate_retry_delay(U32(0, a), c.base_delay_ms, c.max_delay_ms,
                             c.exponential_base, c.jitter_ratio, r)

\* let delay_ms = calculate_retry_delay(attempt + 1, BASE_DELAY_MS,
\* MAX_DELAY_MS, EXPONENTIAL_BASE, JITTER_RATIO); r is what
\* fastrand::f64() draws
delay_ms(d, a, r) ==
    LET c == BlockConsts(d)
    IN calculate_retry_delay(U32(0, a + 1), c.base_delay_ms, c.max_delay_ms,
                             c.exponential_base, c.jitter_ratio, r)

\* client.execute(..).await returns a response or an error (O holds the
\* possible outcomes, R the numbers fastrand can draw for the jitter of
\* the sleep that follows).  Calls of more than MaxSent attempts are not
\* followed.
NetReply(t, O, R) ==
    /\ pc[t] = "net"
    /\ sent[t] <= MaxSent
    /\ \E o \in O, r \in R :
          LET cfg == IF desc[t].kind = "method"
                     THEN MethodReply(desc[t], attempt[t], o)
                     ELSE PipelineReply(desc[t], o)
          IN /\ replies' = [replies EXCEPT ![t] = Append(@, o)]
             /\ slept' = [slept EXCEPT ![t] =
                             IF cfg.pc = "delay"
                             THEN Append(@, delay_ms(desc[t], attempt[t], r))
                             ELSE @]
             /\ Move(t, cfg)
    /\ UNCHANGED <<envVars, body, desc, attempt, failed, effective,
                   cacheVars>>

\* response.bytes().await returns and the conversion of the declared Ok
\* type runs (Ty holds the declared types, Bs what the body can be).
ReadBody(t, Ty, Bs) ==
    /\ pc[t] = "body"
    /\ \E ty \in Ty, b \in Bs :
          /\ body' = [body EXCEPT ![t] = [ok_type |-> ty, bytes |-> b]]
          /\ Move(t, Conf("done", BodyResult(LastStatus(t), ty, b)))
    /\ UNCHANGED <<envVars, slept, desc, attempt, replies, failed, effective,
                   cacheVars>>

\* pool.get_or_cache_url(template, params) up to the end of the block that
\* holds the read lock: a hit returns the cached string, a miss goes on.
CacheLookup(t) ==
    /\ pool[t].stage = "idle"
    /\ \E k \in PoolTemplates, ps \in PoolParams :
          LET hits == Cached(url_cache, k)
          IN pool' = [pool EXCEPT ![t] =
                        IF hits # {}
                        THEN [stage |-> "returned", template |-> k,
                              params |-> ps, hit |-> TRUE,
                              url |-> (CHOOSE e \in hits : TRUE).value]
                        ELSE [stage |-> "miss", template |-> k,
                              params |-> ps, hit |-> FALSE, url |-> <<>>]]
    /\ UNCHANGED <<url_cache, libVars, buildVars, onceVars, callVars,
                   cacheVars>>

\* The rest of get_or_cache_url after a miss: the url is formatted, stored
\* under the write lock and returned.
CacheInsert(t) ==
    /\ pool[t].stage = "miss"
    /\ LET url == replace_params(pool[t].template, pool[t].params, 1)
       IN /\ url_cache' = insert(url_cache, pool[t].template, url)
          /\ pool' = [pool EXCEPT ![t].stage = "returned", ![t].url = url]
    /\ UNCHANGED <<libVars, buildVars, onceVars, callVars, cacheVars>>

\* Variant: `continue` re-enters the iteration without advancing the range.
SameAttemptAgain(a) == a

\* The range iterator of `for attempt in 0..MAX_ATTEMPTS` yields the next
\* index.
NextAttempt(a) == a + 1

\* Variant: one loop counter for every call of the client.
shared_attempt(att, t) == [u \in Tasks |-> NextAttempt(att[u])]

\* `attempt` is a local of the call's own future: the iterator of one call
\* advances that call's index alone.
own_attempt(att, t) == [att EXCEPT ![t] = NextAttempt(@)]

\* tokio::time::sleep(..).await is over; `continue` starts the next
\* iteration.
DelayDone(t) ==
    /\ pc[t] = "delay"
    /\ attempt' = own_attempt(attempt, t)
    /\ Move(t, EnterLoop(desc[t], attempt'[t]))
    /\ UNCHANGED <<envVars, body, slept, desc, replies, failed, effective, cacheVars>>

\* Variant: get_or_init runs the closure although another caller runs it.
InitUnguarded(site) == method_client[site] # "ready"

\* OnceLock::get_or_init lets one caller run the closure; the others wait
\* for it.
CanInit(site) == method_client[site] = "uninit"

\* The client a finished construction yields.
NewClient(site) == Client(site, built[site] + 1)
\* The client the cell of a call-site holds once it is set.
CellClient(site) == Client(site, 1)

\* METHOD_CLIENT.get_or_init(|| ..) of an overridden call-site: the cell is
\* set and the call goes on with that client (B holds the results of the
\* build() that follows), or the closure starts to run.
GetOrInit(t, B) ==
    /\ pc[t] = "select"
    /\ LET site == desc[t].proxy
       IN IF method_client[site] = "ready"
          THEN /\ effective' = [effective EXCEPT ![t] = CellClient(site)]
               /\ \E b \in B : Move(t, MethodStart(desc[t], b))
               /\ UNCHANGED onceVars
          ELSE /\ CanInit(site)
               /\ method_client' = [method_client EXCEPT ![site] = "running"]
               /\ Move(t, Conf("init", NoResult))
               /\ UNCHANGED <<effective, built>>
    /\ UNCHANGED <<libVars, buildVars, poolVars, body, slept, desc, attempt, replies, failed,
                   cacheVars>>

\* The closure returns the client built (reqwest::Client::builder()..
\* .build()) and the cell is set, or it panics (an invalid proxy url, a
\* client that cannot be created) and the cell stays empty; P holds the
\* possible ends.
InitDone(t, P, B) ==
    /\ pc[t] = "init"
    /\ LET site == desc[t].proxy
       IN \E panics \in P, b \in B :
             IF panics
             THEN /\ method_client' = [method_client EXCEPT ![site] = "uninit"]
                  /\ Move(t, Conf("done", Res("panic", 0, 0, "", "")))
                  /\ UNCHANGED <<effective, built>>
             ELSE /\ method_client' = [method_client EXCEPT ![site] = "ready"]
                  /\ built' = [built EXCEPT ![site] = @ + 1]
                  /\ effective' = [effective EXCEPT ![t] = NewClient(site)]
                  /\ Move(t, MethodStart(desc[t], b))
    /\ UNCHANGED <<libVars, buildVars, poolVars, body, slept, desc, attempt, replies, failed,
                   cacheVars>>

\* Variant: the sleep or the request lives on when the call is dropped.
Detached(p) == p

\* Dropping the future of the call drops the Sleep or the pending request
\* it holds at its .await: nothing of the call is left to run.
Dropped(p) == "cancelled"

\* The caller drops the future of the call while it awaits the transport,
\* the body of the response or the retry delay (select!, timeout, abort of
\* its task).
Cancel(t) ==
    /\ pc[t] \in {"net", "delay", "body"}
    /\ pc' = [pc EXCEPT ![t] = Dropped(pc[t])]
    /\ result' = [result EXCEPT ![t] = Res("cancelled", 0, sent[t], "", "")]
    /\ UNCHANGED <<envVars, body, slept, desc, attempt, sent, replies, trace, failed,
                   effective, via, cacheVars>>

\* The functions below are pure (&self is read only): one call per
\* behaviour shows everything they can return.
\* policy.should_retry_status(s)
CallShouldRetryStatus ==
    /\ ret = NoCall
    /\ \E s \in Statuses :
          ret' = [NoCall EXCEPT !.op = "should_retry_status", !.status = s,
                                !.flag = should_retry_status(policy, s)]
    /\ UNCHANGED <<policy, buildVars, poolVars, callVars, onceVars, cacheVars>>

\* RetryPolicy::is_idempotent_method(&method)
CallIsIdempotentMethod ==
    /\ ret = NoCall
    /\ \E v \in Verbs :
          ret' = [NoCall EXCEPT !.op = "is_idempotent_method", !.verb = v,
                                !.flag = is_idempotent_method(v)]
    /\ UNCHANGED <<policy, buildVars, poolVars, callVars, onceVars, cacheVars>>

\* RetryProcessor::generate_idempotent_check(&method), the literal emitted
\* into the generated code
CallGenerateIdempotentCheck ==
    /\ ret = NoCall
    /\ \E v \in Verbs :
          ret' = [NoCall EXCEPT !.op = "generate_idempotent_check",
                                !.verb = v,
                                !.flag = generate_idempotent_check(v)]
    /\ UNCHANGED <<policy, buildVars, poolVars, callVars, onceVars, cacheVars>>

\* policy.calculate_delay(n); r is the number fastrand::f64() draws
CallCalculateDelay ==
    /\ ret = NoCall
    /\ \E n \in Attempts, r \in Draws :
          ret' = [NoCall EXCEPT !.op = "calculate_delay", !.n = n,
                                !.draw = r,
                                !.ms = calculate_delay(policy, n, r)]
    /\ UNCHANGED <<policy, buildVars, poolVars, callVars, onceVars, cacheVars>>

\* calculate_retry_delay(n, ..) of the generated code, on the constants
\* the policy is emitted as
CallCalculateRetryDelay ==
    /\ ret = NoCall
    /\ \E n \in Attempts, r \in Draws :
          ret' = [NoCall EXCEPT !.op = "calculate_retry_delay", !.n = n,
                                !.draw = r,
                                !.ms = calculate_retry_delay(
                                          n, policy.base_delay_ms,
                                          policy.max_delay_ms,
                                          policy.exponential_base,
                                          policy.jitter_ratio, r)]
    /\ UNCHANGED <<policy, buildVars, poolVars, callVars, onceVars, cacheVars>>

\* should_retry_response(s) of the generated code
CallShouldRetryResponse ==
    /\ ret = NoCall
    /\ \E s \in Statuses :
          ret' = [NoCall EXCEPT !.op = "should_retry_response", !.status = s,
                                !.flag = should_retry_response(s)]
    /\ UNCHANGED <<policy, buildVars, poolVars, callVars, onceVars, cacheVars>>

\* RetryConfig::parse(&config_str) at the expansion of the attribute: Ok
\* holds the policy the retry block is generated from, Err is a compile
\* error (parsing/handler.rs parse_retry_value passes it on).
ParseRetry ==
    /\ parsed = "none"
    /\ raw_config # NoLiteral
    /\ LET r == parse_policy_string(raw_config)
       IN /\ parsed' = IF r.ok THEN "ok" ELSE "err"
          /\ policy' = IF r.ok THEN r.policy ELSE policy
    /\ UNCHANGED <<ret, raw_config, poolVars, tmplVars, callVars, onceVars, cacheVars>>

\* The expansion of the attribute generates the code of the template
\* (request/builder.rs generate_request_builder_code).
ExpandTemplate ==
    /\ code = NoCode
    /\ template # NoTemplate
    /\ code' = IF template.target = "url"
               THEN generate_dynamic_url_code(template.text, fn_inputs)
               ELSE generate_dynamic_header_code(template, fn_inputs)
    /\ UNCHANGED <<libVars, confVars, poolVars, fn_inputs, template, arg_values,
                   output, callVars, onceVars, cacheVars>>

\* A call of the built method runs the generated code on its arguments.
FormatTemplate ==
    /\ Builds(code)
    /\ output = NotFormatted
    /\ \E values \in [1..Len(fn_inputs) -> ArgValues] :
          /\ arg_values' = values
          /\ output' = Formatted(template, code, values)
    /\ UNCHANGED <<libVars, confVars, poolVars, fn_inputs, template, code,
                   callVars, onceVars, cacheVars>>

\* ---------------------------------------------------------- specifications
AllDescs == MethodDescs \cup LegacyDescs \cup ZeroDescs \cup WarmupDescs

\* One call, of any generator, against any environment.
Next ==
    \E t \in Solo :
        \/ Start(t, AllDescs, BOOLEAN)
        \/ Acquire(t)
        \/ Entry(t)
        \/ OrInsert(t)
        \/ Release(t, BOOLEAN)
        \/ HookReturn(t, BOOLEAN, BOOLEAN)
        \/ NetReply(t, Outcomes, {0})
        \/ ReadBody(t, OkTypes, BodyBytes)
        \/ DelayDone(t)

Spec == Init /\ [][Next]_vars

\* Concurrent tasks on one client: cached-access calls, warmups and
\* retried calls, with hooks and builds that succeed.
ConcMethodDescs ==
    {d \in MethodDescs :
        /\ d.verb = "GET" /\ d.hasPolicy /\ d.cloneable /\ d.idemOnly
        /\ d.maxAttempts = 2 /\ ~d.hasG /\ ~d.hasM}
ConcDescs == ZeroDescs \cup WarmupDescs \cup ConcMethodDescs
ConcOutcomes == {200, 503}

NextConc ==
    \E t \in Tasks :
        \/ Start(t, ConcDescs, {TRUE})
        \/ Acquire(t)
        \/ Entry(t)
        \/ OrInsert(t)
        \/ Release(t, {TRUE})
        \/ HookReturn(t, {TRUE}, {TRUE})
        \/ NetReply(t, ConcOutcomes, {0})
        \/ ReadBody(t, {"Json"}, {"valid"})
        \/ DelayDone(t)

SpecConc == Init /\ [][NextConc]_vars

\* Two runs of one generated method (the same descriptor) against
\* transports that may answer differently: the method is called twice.
Pair == {t \in Tasks : t <= 2}
PairDescs ==
    {d \in MethodDescs :
        d.hasPolicy /\ ~d.hasG /\ ~d.hasM /\ d.verb \in {"GET", "POST"}}
PairOutcomes == {200, 404, 503, TransportFailure}
SameCall(t) ==
    LET others == {desc[u] : u \in Pair \ {t}} \ {NoDesc}
    IN IF others = {} THEN PairDescs ELSE others

NextPair ==
    \E t \in Pair :
        \/ Start(t, SameCall(t), {TRUE})
        \/ NetReply(t, PairOutcomes, {0})
        \/ ReadBody(t, {"Json"}, {"valid"})
        \/ DelayDone(t)

SpecPair == Init /\ [][NextPair]_vars

\* Calls of call-sites with and without proxy attribute, retried and
\* dropped by their callers, against transports that answer or fail.
SiteDescs ==
    {[d EXCEPT !.proxy = p] :
        d \in {e \in MethodDescs :
                  /\ e.verb = "GET" /\ e.cloneable /\ e.idemOnly
                  /\ e.maxAttempts \in {0, 2, MaxAttemptsBound}
                  /\ ~e.hasG /\ ~e.hasM},
        p \in Overrides \cup {"none"}}
SiteOutcomes == {200, 503, TransportFailure}

NextSite ==
    \E t \in Pair :
        \/ Start(t, SiteDescs, {TRUE})
        \/ GetOrInit(t, {TRUE})
        \/ InitDone(t, BOOLEAN, {TRUE})
        \/ NetReply(t, SiteOutcomes, {0})
        \/ ReadBody(t, {"Json"}, {"valid"})
        \/ DelayDone(t)
        \/ Cancel(t)

SpecSite == Init /\ [][NextSite]_vars

\* The library functions of RetryPolicy called on any policy.
InitPolicy ==
    /\ InitClient
    /\ InitBuild
    /\ policy \in Policies
    /\ ret = NoCall

NextPolicy ==
    \/ CallShouldRetryStatus
    \/ CallIsIdempotentMethod
    \/ CallGenerateIdempotentCheck
    \/ CallCalculateDelay
    \/ CallCalculateRetryDelay
    \/ CallShouldRetryResponse

SpecPolicy == InitPolicy /\ [][NextPolicy]_vars

\* A retry literal is parsed; the delays of the policy it yields.
InitParse ==
    /\ InitClient
    /\ InitTemplate
    /\ raw_config \in Literals(MaxItems)
    /\ parsed = "none"
    /\ policy = DefaultPolicy
    /\ ret = NoCall

NextParse ==
    \/ ParseRetry
    \/ (parsed = "ok" /\ CallCalculateDelay)

SpecParse == InitParse /\ [][NextParse]_vars

\* A template is expanded for a declared method and a call formats it.
InitResolve ==
    /\ InitClient
    /\ raw_config = NoLiteral
    /\ parsed = "none"
    /\ policy = DefaultPolicy
    /\ ret = NoCall
    /\ fn_inputs \in Inputs
    /\ template \in Templates
    /\ code = NoCode
    /\ arg_values = <<>>
    /\ output = NotFormatted

NextResolve ==
    \/ ExpandTemplate
    \/ FormatTemplate

SpecResolve == InitResolve /\ [][NextResolve]_vars

\* A method whose retry attribute is one of a few literals: the attribute
\* is parsed at expansion, the generated method is called and its retry
\* block runs with the constants of the parsed policy.
EngineLiterals ==
    {[form |-> "exponential", items |-> q] : q \in
        { <<Item(NoKey, Txt("int", 3, "")), Item(NoKey, Txt("int", 100, "ms"))>>,
          <<Item(NoKey, Txt("int", 0, "")), Item(NoKey, Txt("int", 100, "ms"))>>,
          <<Item("max_attempts", Txt("int", 0, ""))>>,
          <<Item("max_attempts", Txt("int", 1, ""))>>,
          <<Item("max_attempts", Txt("int", 3, "")),
            Item("max_delay", Txt("int", 150, "ms")),
            Item("jitter_ratio", Txt("int", 0, ""))>>,
          <<Item("max_attempts", Txt("int", 3, "")),
            Item("idempotent_only", Txt("bool", 0, ""))>>,
          <<Item("bogus", Txt("int", 1, ""))>> }}
    \cup
    {[form |-> "fixed", items |-> q] : q \in
        { <<Item("max_attempts", Txt("int", 2, "")),
            Item("delay", Txt("int", 100, "ms"))>> }}

\* generate_retry_with_policy: the call-sites generated from a policy.
PolicyDescs(p) ==
    {[kind |-> "method", verb |-> v, hasPolicy |-> TRUE,
      maxAttempts |-> p.max_attempts, idemOnly |-> p.idempotent_only,
      cloneable |-> TRUE, hasG |-> FALSE, hasM |-> FALSE,
      mtype |-> NoType, proxy |-> "none"] : v \in {"GET", "POST"}}

EngineOutcomes == {200, 404, 503, TransportFailure}

InitEngine ==
    /\ InitClient
    /\ InitTemplate
    /\ raw_config \in EngineLiterals
    /\ parsed = "none"
    /\ policy = DefaultPolicy
    /\ ret = NoCall

NextEngine ==
    \/ ParseRetry
    \/ \E t \in Solo :
          \/ (parsed = "ok" /\ Start(t, PolicyDescs(policy), {TRUE}))
          \/ NetReply(t, EngineOutcomes, Draws)
          \/ ReadBody(t, {"Json"}, {"valid"})
          \/ DelayDone(t)

SpecEngine == InitEngine /\ [][NextEngine]_vars

\* The same calls against a transport that answers every attempt, timers
\* that fire and bodies that arrive: execute(..).await, sleep(..).await and
\* bytes().await return.
NextLive ==
    \/ ParseRetry
    \/ \E t \in Solo :
          \/ (parsed = "ok" /\ Start(t, PolicyDescs(policy), {TRUE}))
          \/ NetReply(t, EngineOutcomes, {0})
          \/ ReadBody(t, {"Json"}, {"valid"})
          \/ DelayDone(t)

SpecLive ==
    /\ InitEngine
    /\ [][NextLive]_vars
    /\ \A t \in Solo :
          /\ WF_vars(NetReply(t, EngineOutcomes, {0}))
          /\ WF_vars(ReadBody(t, {"Json"}, {"valid"}))
          /\ WF_vars(DelayDone(t))

\* Calls of get_or_cache_url on one StringPool, one after the other or at
\* the same time.
NextPool ==
    \E t \in Tasks :
        \/ CacheLookup(t)
        \/ CacheInsert(t)

SpecPool == Init /\ [][NextPool]_vars

\* ------------------------------------------------------------ properties
\* The vocabulary of the properties, stated without the engine's operators.
RetryableStatus(o) == o \in {408, 429} \/ (o >= 500 /\ o <= 599)
RetryableOutcome(o) == o = TransportFailure \/ RetryableStatus(o)
IdempotentVerb(v) == v \in {"GET", "PUT", "DELETE"}
PolicyCall(t) == desc[t].kind = "method" /\ desc[t].hasPolicy
\* The call reached its retry block: request_builder.build() returned Ok.
RetryBlockCall(t) == PolicyCall(t) /\ result[t].tag # "build"
Answers(t) == {replies[t][i] : i \in 1..Len(replies[t])}
Last(q) == q[Len(q)]

\* C1: a call with a retry policy invokes the transport at most
\* max_attempts times.
C1_AttemptsBounded ==
    \A t \in Tasks : PolicyCall(t) => sent[t] <= desc[t].maxAttempts

\* A finished call that used all its attempts, some answered by a
\* retryable status and some by a transport failure.
C1_Witness ==
    \E t \in Tasks :
        /\ PolicyCall(t) /\ pc[t] = "done"
        /\ desc[t].maxAttempts = MaxAttemptsBound
        /\ sent[t] = MaxAttemptsBound
        /\ TransportFailure \in Answers(t)
        /\ \E o \in Answers(t) : RetryableStatus(o)

\* The transport of this call has answered every attempt so far with a
\* retryable status.
AlwaysRetryableStatus(t) == \A o \in Answers(t) : RetryableStatus(o)

\* The call made exactly N attempts, never slept after the last one, and
\* ended with the HTTP-status error.
ExactlyThenStatusError(t, N) ==
    /\ sent[t] <= N
    /\ pc[t] = "delay" => sent[t] < N
    /\ pc[t] = "done" => /\ sent[t] = N
                         /\ result[t].tag = "http_status"
                         /\ RetryableStatus(result[t].status)

PostPolicyCall(t) ==
    RetryBlockCall(t) /\ desc[t].verb = "POST" /\ desc[t].maxAttempts >= 1

\* Attempted exactly once: one invocation, no sleep, whatever the answer.
OnceOnly(t) ==
    /\ sent[t] <= 1
    /\ pc[t] # "delay"
    /\ pc[t] = "done" => sent[t] = 1

\* Retried on retryable outcomes up to max_attempts in total: the call
\* goes on while the answers are retryable, stops at the first answer
\* that is not, and stops after max_attempts attempts.
RetriedUpToMax(t) ==
    /\ sent[t] <= desc[t].maxAttempts
    /\ \A i \in 1..(Len(replies[t]) - 1) : RetryableOutcome(replies[t][i])
    /\ (pc[t] = "done" /\ \A o \in Answers(t) : RetryableOutcome(o))
           => sent[t] = desc[t].maxAttempts

PostBehaviour(t) ==
    IF desc[t].idemOnly THEN OnceOnly(t) ELSE RetriedUpToMax(t)

LoopLeft == {"body", "done"}

\* The gate of the claim, for the answer o to attempt number a (from 0).
RetryDue(t, o, a) ==
    /\ RetryableOutcome(o)
    /\ a < desc[t].maxAttempts - 1
    /\ (~desc[t].idemOnly \/ IdempotentVerb(desc[t].verb))

\* C4: after an attempt a retry is scheduled (a sleep, then the next
\* attempt) exactly when the outcome is a retryable status or a transport
\* failure, fewer than max_attempts - 1 attempts came before, and
\* idempotent_only is false or the verb is idempotent; transport failures
\* pass the same idempotency and budget gate as retryable statuses.
C4_RetryGate ==
    [][\A t \in Tasks :
          /\ (PolicyCall(t) /\ pc[t] = "net" /\ pc'[t] # "net")
                => /\ pc'[t] \in {"delay"} \cup LoopLeft
                   /\ pc'[t] = "delay"
                        <=> RetryDue(t, Last(replies'[t]), attempt[t])
          /\ (PolicyCall(t) /\ pc[t] = "delay" /\ pc'[t] # "delay")
                => /\ pc'[t] = "net"
                   /\ attempt'[t] = attempt[t] + 1
                   /\ sent'[t] = sent[t] + 1]_vars

\* A retry scheduled after a transport failure and one after a retryable
\* status, in one call.
C4_Witness ==
    \E t \in Tasks :
        /\ PolicyCall(t) /\ pc[t] = "net" /\ attempt[t] = 2
        /\ replies[t] = <<TransportFailure, 429>>

\* The call ran to its end with a response in hand and no hook failed.
Completed(t) ==
    /\ pc[t] = "done"
    /\ failed[t] = "none"
    /\ result[t].tag \in {"success", "http_status", "response"}

\* A call of a client with a global interceptor G, on a method with a
\* call-site interceptor M.
BothRegistered(t) ==
    /\ desc[t].kind \in {"method", "legacy", "zero"}
    /\ desc[t].hasG /\ desc[t].hasM

FiveStepTrace ==
    <<"g_before", "m_before", "net", "m_after", "g_after">>

\* C5: with a global interceptor G and a call-site interceptor M, every
\* call that completes without a hook failure has the trace G.before,
\* M.before, network, M.after, G.after.
C5_HookOrder ==
    \A t \in Tasks :
        (BothRegistered(t) /\ Completed(t)) => trace[t] = FiveStepTrace

\* The cited pipelines that do run hooks (generate.rs and
\* execute_with_interceptors) keep that order.
PipelineHookOrder ==
    \A t \in Tasks :
        (BothRegistered(t) /\ Completed(t) /\ desc[t].kind # "method")
            => trace[t] = FiveStepTrace

ScopeOf(h) == IF h \in {"g_before", "g_after"} THEN "global" ELSE "call-site"
PhaseOf(h) == IF h \in {"g_before", "m_before"} THEN "before" ELSE "after"

NoHookBetweenAttempts(q) ==
    \A i \in 3..(Len(q) - 2) : q[i] \in {"net", "delay"}

\* C7: with interceptors and a retry policy the order is global-before,
\* call-site-before, attempt 1 .. attempt N, call-site-after,
\* global-after, with no hook between attempts.
C7_HooksAroundRetries ==
    \A t \in Tasks :
        (BothRegistered(t) /\ desc[t].hasPolicy /\ Completed(t)) =>
            /\ Len(trace[t]) >= 5
            /\ SubSeq(trace[t], 1, 2) = <<"g_before", "m_before">>
            /\ SubSeq(trace[t], Len(trace[t]) - 1, Len(trace[t]))
                  = <<"m_after", "g_after">>
            /\ NoHookBetweenAttempts(trace[t])

\* The calls that have been handed an instance by get_or_create.
Served == {t \in Tasks : handle[t] # NoInst}

\* C8: every request for a type returns the instance first created for
\* that type, different types have different instances, an entry once
\* present is never removed or replaced, and size() is the number of
\* distinct types requested so far.
C8_CacheIdentity ==
    /\ \A t \in Served : handle[t] = firstInst[desc[t].mtype]
    /\ \A a, b \in Types :
          (a # b /\ cache[a] # NoInst) => cache[a] # cache[b]
    /\ \A ty \in Types : cache[ty] = firstInst[ty]
    /\ \A ty \in Types : ty \in requested <=> cache[ty] # NoInst
    /\ size = Cardinality(requested)

\* A warmed type later requested by a call: the call is handed the
\* instance the warm-up constructed, and the cache holds one entry.
C8_Witness ==
    \E t, u \in Served :
        /\ desc[t].kind = "warmup" /\ desc[u].kind = "zero"
        /\ desc[t].mtype = desc[u].mtype
        /\ handle[t] = handle[u]
        /\ pc[t] = "done"
        /\ size = 1

\* C9: when several calls request the same type at the same time, one
\* instance is constructed and every one of them receives it.
C9_OneConstruction ==
    /\ \A ty \in Types : created[ty] <= 1
    /\ \A ty \in requested : created[ty] = 1
    /\ \A t, u \in Served :
          desc[t].mtype = desc[u].mtype => handle[t] = handle[u]

\* Two calls ask for the same type together: one has constructed the
\* instance and still holds the lock, the other waits for the lock.
C9_Witness ==
    \E t, u \in Tasks :
        /\ t # u
        /\ desc[t].kind = "zero" /\ desc[u].kind = "zero"
        /\ desc[t].mtype = desc[u].mtype
        /\ pc[t] = "release" /\ lock = t /\ handle[t] # NoInst
        /\ created[desc[t].mtype] = 1
        /\ pc[u] = "lock"

\* C10: the cache lock is held only inside the get-or-create block; a call
\* suspended in a hook, a transport attempt or a retry delay does not hold
\* it, so it never keeps another call from its lookup.
C10_LockScope ==
    /\ \A t \in Tasks : pc[t] \in SuspendPcs => lock # t
    /\ \A t \in Tasks : lock = t => pc[t] \in AccessPcs
    /\ (\E u \in Tasks : pc[u] = "lock")
          => (lock = NoTask \/ pc[lock] \in AccessPcs)

\* One call sits in a hook with its cached interceptor while another call
\* holds the lock for its own lookup.
C10_Witness ==
    \E t, u \in Tasks :
        /\ t # u
        /\ pc[t] \in HookPcs /\ handle[t] # NoInst
        /\ lock = u /\ pc[u] \in AccessPcs

\* The call returned the body-not-replayable error ("Request body cannot
\* be cloned for retry").
NotReplayableError(t) == pc[t] = "done" /\ result[t].tag = "no_clone"

ReturnsOutcome(t, o) ==
    IF o = TransportFailure
    THEN result[t].tag = "transport"
    ELSE result[t].tag \in {"success", "http_status"}
            /\ result[t].status = o

\* C12: a call with a retry policy whose request cannot be cloned still
\* issues its first attempt; when that attempt ends in success or in an
\* outcome for which no retry is due, the call returns that outcome and
\* not the body-not-replayable error.
C12_FirstAttemptIssued ==
    \A t \in Tasks :
        (/\ RetryBlockCall(t) /\ ~desc[t].cloneable
         /\ desc[t].maxAttempts >= 1 /\ pc[t] = "done") =>
            /\ sent[t] >= 1
            /\ ~RetryDue(t, replies[t][1], 0) =>
                  (sent[t] = 1 /\ ReturnsOutcome(t, replies[t][1]))

\* Retries are exhausted: the last of max_attempts >= 2 attempts ended in
\* a retryable outcome.
Exhausted(t) ==
    /\ PolicyCall(t) /\ pc[t] = "done"
    /\ desc[t].maxAttempts >= 2
    /\ sent[t] = desc[t].maxAttempts
    /\ RetryableOutcome(Last(replies[t]))

\* C13: when retries are exhausted the returned error carries the last
\* outcome and the number of attempts made, for a last outcome that is a
\* transport failure and for one that is a retryable HTTP status.
C13_ExhaustionAnnotated ==
    \A t \in Tasks :
        Exhausted(t) =>
            /\ ReturnsOutcome(t, Last(replies[t]))
            /\ result[t].tag # "success"
            /\ result[t].attempts = sent[t]

\* Part of C13 that the code keeps: exhaustion by a transport failure.
TransportExhaustionAnnotated ==
    \A t \in Tasks :
        (Exhausted(t) /\ Last(replies[t]) = TransportFailure) =>
            result[t].tag = "transport" /\ result[t].attempts = sent[t]

\* C14: the retry loop follows Attempting(n) -> {Success, Terminal,
\* RetryScheduled(n+1)} -> Attempting(n+1) | Exhausted: an attempt is
\* followed by the call's end or by one delay, a delay by the attempt of
\* the next index, the index grows by exactly one per retry, and a call
\* that has ended issues no further attempt and awaits no further delay.
C14_RetryStateMachine ==
    [][\A t \in Tasks : PolicyCall(t) =>
          /\ pc[t] = "net" =>
                /\ pc'[t] \in {"net", "delay"} \cup LoopLeft
                /\ attempt'[t] = attempt[t]
                /\ sent'[t] = sent[t]
          /\ pc[t] = "body" =>
                /\ pc'[t] \in LoopLeft
                /\ sent'[t] = sent[t]
                /\ trace'[t] = trace[t]
          /\ pc[t] = "delay" =>
                \/ pc'[t] = "delay" /\ attempt'[t] = attempt[t]
                                     /\ sent'[t] = sent[t]
                \/ pc'[t] = "net" /\ attempt'[t] = attempt[t] + 1
                                   /\ sent'[t] = sent[t] + 1
          /\ pc[t] = "done" =>
                /\ pc'[t] = "done"
                /\ sent'[t] = sent[t]
                /\ trace'[t] = trace[t]
                /\ result'[t] = result[t]
          /\ pc'[t] = "net" => sent'[t] = attempt'[t] + 1]_vars

\* A call in its third attempt, after two scheduled retries.
C14_Witness ==
    \E t \in Tasks :
        /\ PolicyCall(t) /\ pc[t] = "net"
        /\ attempt[t] = 2 /\ sent[t] = 3
        /\ trace[t] = <<"net", "delay", "net", "delay", "net">>

\* Two finished runs of the same call whose final attempts had the same
\* outcome.
SameFinalOutcome(t, u) ==
    /\ PolicyCall(t) /\ desc[t] = desc[u]
    /\ pc[t] = "done" /\ pc[u] = "done"
    /\ replies[t] # <<>> /\ replies[u] # <<>>
    /\ Last(replies[t]) = Last(replies[u])

\* C15: the value a call returns depends only on the outcome of its final
\* attempt: two runs of the same call whose final attempts have the same
\* outcome return the same result, whatever retried attempts preceded.
C15_FinalOutcomeOnly ==
    \A t, u \in Tasks : SameFinalOutcome(t, u) => result[t] = result[u]

\* A run answered 200 at once and a run of the same call answered 200
\* after a retried 503.
C15_Witness ==
    \E t, u \in Tasks :
        /\ SameFinalOutcome(t, u)
        /\ replies[t] = <<200>> /\ replies[u] = <<503, 200>>
        /\ result[t] = result[u]

\* C16: should_retry_status(s) is true exactly for 408, 429 and 500..=599,
\* for every status code and every policy.
C16_RetryableStatuses ==
    ret.op = "should_retry_status" =>
        /\ ret.flag <=> (ret.status \in {408, 429}
                            \/ (ret.status >= 500 /\ ret.status <= 599))
        /\ ret.status \in {200, 400, 404, 407, 409, 499, 600} => ~ret.flag

\* 600 asked of a policy that is not the default one.
C16_Witness ==
    /\ ret.op = "should_retry_status"
    /\ ret.status = 600 /\ ~ret.flag
    /\ policy # DefaultPolicy

\* C17: GET, PUT and DELETE are classified idempotent and POST is not, by
\* RetryPolicy::is_idempotent_method and by the check emitted into the
\* generated code, whatever the policy is.
C17_IdempotentVerbs ==
    ret.op \in {"is_idempotent_method", "generate_idempotent_check"} =>
        (ret.flag <=> ret.verb \in {"GET", "PUT", "DELETE"})

\* POST classified by the library function under a policy with
\* idempotent_only = false.
C17_Witness ==
    /\ ret.op = "is_idempotent_method"
    /\ ret.verb = "POST" /\ ~ret.flag
    /\ ~policy.idempotent_only

\* min(base_delay * exponential_base^(n-1), max_delay) as a fraction, for
\* the number n itself (no cast).  For n >= 2^31 the power is beyond every
\* f64: the minimum is max_delay for a base above 1, base_delay capped for
\* base 1, and below 10^-300 (written 0) for a base below 1.
UnjitteredDelay(p, n) ==
    LET cap(num, den) == IF num <= p.max_delay_ms * den
                         THEN [num |-> num, den |-> den]
                         ELSE [num |-> p.max_delay_ms, den |-> 1]
    IN IF n.hi = 0
       THEN cap(p.base_delay_ms * Pow(p.exponential_base, n.lo - 1),
                Pow(BaseDen, n.lo - 1))
       ELSE IF p.exponential_base > BaseDen
            THEN [num |-> p.max_delay_ms, den |-> 1]
            ELSE IF p.exponential_base = BaseDen
                 THEN cap(p.base_delay_ms, 1)
                 ELSE [num |-> 0, den |-> 1]

DelayCall == ret.op = "calculate_delay"
FirstOrLater(n) == n # U32(0, 0)

\* C18: with jitter_ratio = 0, calculate_delay(0) = 0 and for n >= 1
\* calculate_delay(n) = min(base_delay * exponential_base^(n-1),
\* max_delay) exactly, never above max_delay.
C18_ExactDelay ==
    (DelayCall /\ policy.jitter_ratio = 0) =>
        IF FirstOrLater(ret.n)
        THEN LET d == UnjitteredDelay(policy, ret.n)
             IN ret.ms * d.den = d.num /\ ret.ms <= policy.max_delay_ms
        ELSE ret.ms = 0

\* What the code keeps of C18: for n below 2^31 the result is the whole
\* milliseconds of that minimum.
WholeMillisecondsDelay ==
    (DelayCall /\ policy.jitter_ratio = 0 /\ ret.n.hi = 0) =>
        IF FirstOrLater(ret.n)
        THEN LET d == UnjitteredDelay(policy, ret.n)
             IN ret.ms = d.num \div d.den
        ELSE ret.ms = 0

\* C19: with jitter_ratio = j > 0 and d the un-jittered delay, every value
\* of calculate_delay(n), n >= 1, lies in [d, d * (1 + j)].
C19_JitterRange ==
    (DelayCall /\ policy.jitter_ratio > 0 /\ FirstOrLater(ret.n)) =>
        LET d == UnjitteredDelay(policy, ret.n)
        IN /\ d.num <= ret.ms * d.den
           /\ ret.ms * d.den * JitterDen
                 <= d.num * (JitterDen + policy.jitter_ratio)

\* n + 1 on a u32 below u32::MAX
U32Add1(n) ==
    IF n.lo < I32Max THEN U32(n.hi, n.lo + 1) ELSE U32(1, 0)

\* C20: for every policy the parser accepts, with jitter_ratio = 0 the
\* delay does not decrease with the attempt number:
\* calculate_delay(n) <= calculate_delay(n+1) for all n >= 0.
C20_MonotoneDelay ==
    (DelayCall /\ policy.jitter_ratio = 0
        /\ U32Add1(ret.n) \in Attempts) =>
        ret.ms <= calculate_delay(policy, U32Add1(ret.n), 0)

\* What the code keeps of C20: monotone for the bases the data model
\* allows (exponential_base >= 1.0), below 2^31.
MonotoneForGrowingBase ==
    (DelayCall /\ policy.jitter_ratio = 0 /\ ret.n.hi = 0
        /\ policy.exponential_base >= BaseDen
        /\ U32Add1(ret.n) \in Attempts) =>
        ret.ms <= calculate_delay(policy, U32Add1(ret.n), 0)

\* ---- C21..C24: the retry literal parser
KvLiteral(form, q) == raw_config = [form |-> form, items |-> q]
\* The milliseconds a well-formed duration text stands for.
Millis(text) == IF text.unit = "s" THEN 1000 * text.n ELSE text.n
WellFormedDuration(text) == text.kind = "int" /\ text.unit \in {"ms", "s"}
WholeNumber(text) == text.kind = "int" /\ text.unit = ""

\* fixed(max_attempts=N, delay=D)
FixedLiteral ==
    /\ raw_config.form = "fixed"
    /\ Len(raw_config.items) = 2
    /\ raw_config.items[1].key = "max_attempts"
    /\ WholeNumber(raw_config.items[1].text)
    /\ raw_config.items[2].key = "delay"
    /\ WellFormedDuration(raw_config.items[2].text)

\* C21: the policy parsed from fixed(max_attempts=N, delay=D) is
\* RetryPolicy::fixed(N, D), and its calculate_delay(k) is D exactly for
\* every k >= 1, whatever the random draw.
C21_FixedLiteralPolicy ==
    (FixedLiteral /\ parsed # "none") =>
        LET N == raw_config.items[1].text.n
            D == Millis(raw_config.items[2].text)
        IN /\ parsed = "ok"
           /\ policy = fixed(N, D)
           /\ (DelayCall /\ FirstOrLater(ret.n)) => ret.ms = D

\* What does hold: the parsed policy differs from RetryPolicy::fixed(N, D)
\* in jitter_ratio only, and no delay is below D.
FixedLiteralButJitter ==
    (FixedLiteral /\ parsed # "none") =>
        LET N == raw_config.items[1].text.n
            D == Millis(raw_config.items[2].text)
        IN /\ parsed = "ok"
           /\ policy = [fixed(N, D) EXCEPT
                           !.jitter_ratio = DefaultPolicy.jitter_ratio]
           /\ (DelayCall /\ FirstOrLater(ret.n)) => ret.ms >= D

KnownKeys(form) ==
    IF form = "fixed" THEN {"max_attempts", "delay"}
    ELSE {"max_attempts", "base_delay", "max_delay", "exponential_base",
          "jitter_ratio", "idempotent_only"}
DurationKeys(form) ==
    IF form = "fixed" THEN {"delay"} ELSE {"base_delay", "max_delay"}

UnknownKey(form, it) == it.key # NoKey /\ it.key \notin KnownKeys(form)
\* A duration that is not a number, or whose unit is neither ms nor s
\* (the duration without unit is the case of C23).
MalformedDuration(form, it) ==
    /\ it.key \in DurationKeys(form)
    /\ (it.text.kind # "int" \/ it.text.unit \notin {"ms", "s", ""})
BadItemAt(i) ==
    /\ i \in 1..Len(raw_config.items)
    /\ \/ UnknownKey(raw_config.form, raw_config.items[i])
       \/ MalformedDuration(raw_config.form, raw_config.items[i])
PolicyLiteral == raw_config.form \in {"exponential", "fixed"}

\* C22: a literal of either form holding an unknown key or a malformed
\* duration at any place of its list is rejected by the parser: it yields
\* an error and no policy.
C22_BadItemRejected ==
    (PolicyLiteral /\ parsed # "none"
       /\ \E i \in 1..MaxItems : BadItemAt(i)) => parsed = "err"

\* What does hold: such an item is rejected unless an item without "="
\* stands before it in an exponential(...) list.
BadItemRejectedUnlessAfterBare ==
    \A i \in 1..MaxItems :
        (PolicyLiteral /\ parsed # "none" /\ BadItemAt(i)
           /\ ~(raw_config.form = "exponential"
                  /\ \E j \in 1..(i - 1) :
                        /\ raw_config.items[j].key = NoKey
                        /\ raw_config.items[j] # EmptyItem))
        => parsed = "err"

\* exponential(N, D) with D a number without unit
DurationWithoutUnit ==
    /\ raw_config.form = "exponential"
    /\ Len(raw_config.items) = 2
    /\ raw_config.items[1].key = NoKey
    /\ WholeNumber(raw_config.items[1].text)
    /\ raw_config.items[2].key = NoKey
    /\ WholeNumber(raw_config.items[2].text)
\* exponential(,)
EmptyList == KvLiteral("exponential", <<EmptyItem, EmptyItem>>)
\* fixed(delay=D)
FixedWithoutMaxAttempts ==
    /\ raw_config.form = "fixed"
    /\ Len(raw_config.items) = 1
    /\ raw_config.items[1].key = "delay"
    /\ WellFormedDuration(raw_config.items[1].text)

\* C23: a literal whose duration has no ms or s suffix, whose parameter
\* list is empty, or that is fixed(...) without max_attempts, is rejected.
C23_MalformedRejected ==
    (parsed # "none"
       /\ (DurationWithoutUnit \/ EmptyList \/ FixedWithoutMaxAttempts))
    => parsed = "err"

\* exponential(5, 200ms, max_delay=30s, jitter_ratio=0.15)
MixedLiteral ==
    KvLiteral("exponential",
              << Item(NoKey, Txt("int", 5, "")),
                 Item(NoKey, Txt("int", 200, "ms")),
                 Item("max_delay", Txt("int", 30, "s")),
                 Item("jitter_ratio", Txt("dec", 15, "")) >>)

\* C24: in a literal that mixes leading bare values with key=value items
\* every item takes effect: the literal above yields max_attempts 5,
\* base_delay 200 ms, max_delay 30000 ms and jitter_ratio 0.15.
C24_MixedForms ==
    (MixedLiteral /\ parsed # "none") =>
        /\ parsed = "ok"
        /\ policy.max_attempts = 5
        /\ policy.base_delay_ms = 200
        /\ policy.max_delay_ms = 30000
        /\ policy.jitter_ratio * 100 = 15 * JitterDen

\* What does hold: the two bare values take effect and every field a
\* key=value item names keeps its default.
MixedFormsKeepDefaults ==
    (MixedLiteral /\ parsed # "none") =>
        /\ parsed = "ok"
        /\ policy = [DefaultPolicy EXCEPT !.max_attempts = 5,
                                           !.base_delay_ms = 200]

\* ---- C25..C27: placeholders in url and header templates
\* The names of the tokens of the template, and the arguments by name and
\* by position.
TokenNames ==
    {template.text[i + 1] :
        i \in {j \in 1..Len(template.text) : template.text[j] = LBrace}}
ArgNames == {fn_inputs[i] : i \in 1..Len(fn_inputs)}
ArgKeys == {PosKey(i - 1) : i \in 1..Len(fn_inputs)}
ValueByName(k) ==
    arg_values[CHOOSE i \in 1..Len(fn_inputs) : fn_inputs[i] = k]
ValueByPosition(k) ==
    arg_values[CHOOSE i \in 1..Len(fn_inputs) : PosKey(i - 1) = k]
ValueByMap(k) == arg_values[extract_parameters(fn_inputs)[k]]

\* The text with every token replaced, left to right, by val[its name].
RECURSIVE Substituted(_, _, _)
Substituted(text, i, val) ==
    IF i > Len(text) THEN <<>>
    ELSE IF text[i] = LBrace
    THEN val[text[i + 1]] \o Substituted(text, i + 3, val)
    ELSE <<text[i]>> \o Substituted(text, i + 1, val)

Prefix == IF template.target = "url" THEN BaseUrl ELSE <<>>
WellFormedTarget == template.target = "url" \/ template.sep
CallFormatted == output # NotFormatted

\* C25: a template whose tokens are argument names and the template whose
\* tokens are the positions of the same arguments resolve to the same
\* string: every token replaced, in textual order, by the value of the
\* argument it names, respectively of the argument at that position.
C25_NameAndPosition ==
    /\ (code # NoCode /\ WellFormedTarget /\ TokenNames # {}
          /\ (TokenNames \subseteq ArgNames \/ TokenNames \subseteq ArgKeys))
       => Builds(code)
    /\ (CallFormatted /\ TokenNames # {} /\ TokenNames \subseteq ArgNames)
       => output = Prefix \o
             Substituted(template.text, 1,
                         [k \in TokenNames |-> ValueByName(k)])
    /\ (CallFormatted /\ TokenNames # {} /\ TokenNames \subseteq ArgKeys)
       => output = Prefix \o
             Substituted(template.text, 1,
                         [k \in TokenNames |-> ValueByPosition(k)])

\* An argument bears the positional key of another argument.
Shadowing ==
    \E i, j \in 1..Len(fn_inputs) : i # j /\ fn_inputs[i] = PosKey(j - 1)

\* What does hold: the same, for argument lists in which no argument is
\* named as the position of another one.
NameAndPositionUnlessShadowed == Shadowing \/ C25_NameAndPosition

\* C26: a url or header-value template with a token that is neither an
\* argument name nor a positional key, and a header that is not
\* `Key: Value`, generate a compile error: nothing is built and no call
\* ever formats the template.
UnresolvedToken ==
    WellFormedTarget /\ TokenNames \ (ArgNames \cup ArgKeys) # {}
MalformedHeader == template.target = "header" /\ ~template.sep
C26_UnresolvedIsBuildError ==
    ((UnresolvedToken \/ MalformedHeader) /\ code # NoCode) =>
        /\ code.kind = "error"
        /\ ~Builds(code)
        /\ output = NotFormatted

C26_Witness ==
    /\ UnresolvedToken
    /\ TokenNames \cap (ArgNames \cup ArgKeys) # {}
    /\ code.kind = "error"

\* C27: the values are inserted as they are, in one pass: the formatted
\* string is the template with every token replaced by the value of the
\* argument the token resolved to, also where that value holds the text
\* of a token.
C27_SinglePass ==
    (CallFormatted /\ TokenNames # {}) =>
        output = Prefix \o
            Substituted(template.text, 1,
                        [k \in TokenNames |-> ValueByMap(k)])

\* A value that reads {param0} has been inserted and stands in the string.
C27_Witness ==
    /\ CallFormatted
    /\ TokenNames # {}
    /\ \E i \in 1..Len(output) : output[i] = LBrace
    /\ \E i \in 1..Len(arg_values) : arg_values[i] = <<"7">>

\* ---- C28..C30: the transport of a call, and its cancellation
Overridden(t) == desc[t].kind = "method" /\ desc[t].proxy \in Overrides
HasSent(t) == via[t] # {}

\* C28: every request of a call whose call-site has a proxy override is
\* executed by the override client, on every attempt, and every request of
\* a call without override by the default client of the struct.
C28_OverrideTransport ==
    \A t \in Tasks :
        (desc[t].kind = "method" /\ HasSent(t)) =>
            IF Overridden(t)
            THEN /\ effective[t].site = desc[t].proxy
                 /\ via[t] = {effective[t]}
            ELSE via[t] = {SelfClient}

\* What does hold: the override client is bound to effective_client and
\* every request is executed by self.client.
OverrideBoundButUnused ==
    \A t \in Tasks :
        (desc[t].kind = "method" /\ HasSent(t)) =>
            /\ via[t] = {SelfClient}
            /\ Overridden(t) => effective[t] = CellClient(desc[t].proxy)

\* C29: the client of an overridden call-site is constructed at most once
\* over all its calls, not before the first of them, and every call that
\* has selected its client holds that one instance.
C29_OneOverrideClient ==
    \A s \in Overrides :
        /\ built[s] <= 1
        /\ built[s] = 1 =>
              \E t \in Tasks : desc[t].proxy = s /\ pc[t] # "idle"
        /\ \A t \in Tasks :
              (desc[t].proxy = s /\ effective[t] # NoClient) =>
                  /\ effective[t] = Client(s, 1)
                  /\ built[s] = 1

\* Two calls of one overridden call-site hold the same client, the first
\* and only one constructed.
C29_Witness ==
    \E t, u \in Tasks :
        /\ t # u
        /\ Overridden(t)
        /\ desc[u].proxy = desc[t].proxy
        /\ effective[t] = Client(desc[t].proxy, 1)
        /\ effective[u] = effective[t]
        /\ built[desc[t].proxy] = 1

WasCancelled(t) == result[t].tag = "cancelled"

\* C30: once a call has been cancelled at its retry delay or at its
\* transport call, it awaits nothing any more, no delay and no response,
\* and it issues no further transport attempt and enters no further delay.
C30_CancelStopsLoop ==
    [][\A t \in Tasks :
          WasCancelled(t) =>
              /\ pc[t] \notin SuspendPcs
              /\ pc'[t] = pc[t]
              /\ sent'[t] = sent[t]
              /\ trace'[t] = trace[t]
              /\ WasCancelled(t)']_vars

\* A call dropped during its retry delay, with an attempt still to come,
\* while another call of the client goes on.
C30_Witness ==
    \E t, u \in Tasks :
        /\ WasCancelled(t)
        /\ trace[t] # <<>>
        /\ Last(trace[t]) = "delay"
        /\ sent[t] < desc[t].maxAttempts
        /\ pc[u] \in {"net", "delay"}

\* ---- C31: what a call returns for its final response
\* The body read is of the declared type: any bytes become a String or a
\* Vec<u8>, JSON text of the type becomes a value of it.
Decodes(b) ==
    /\ b.bytes \in {"valid", "invalid"}
    /\ b.ok_type = "Json" => b.bytes = "valid"

\* The call ended holding a response: no hook, build, clone or transport
\* error, and not dropped.
StatusDecided(t) ==
    /\ pc[t] = "done"
    /\ desc[t].kind \in {"method", "legacy"}
    /\ replies[t] # <<>>
    /\ LastStatus(t) # TransportFailure
    /\ failed[t] = "none"

\* C31: a call returns a success value only if its final response has a
\* success status and the body decodes into the declared result type; a
\* final non-success status yields an error carrying that status code and
\* no body is read or decoded for it.
C31_SuccessOnlyDecoded ==
    \A t \in Tasks :
        /\ result[t].tag = "success" =>
              /\ LastStatus(t) \in 200..299
              /\ Decodes(body[t])
        /\ (StatusDecided(t) /\ LastStatus(t) \notin 200..299) =>
              /\ result[t].tag = "http_status"
              /\ result[t].status = LastStatus(t)
              /\ body[t] = NoBody
        /\ body[t] # NoBody => LastStatus(t) \in 200..299

\* One call answered 200 whose body is no JSON text of the declared type
\* and which returned the decode error.
C31_Witness ==
    \E t \in Tasks :
        /\ StatusDecided(t)
        /\ LastStatus(t) = 200
        /\ body[t] = [ok_type |-> "Json", bytes |-> "invalid"]
        /\ result[t].tag = "decode"

\* ---- C32, C33, C35: the delays and the end of the retry loop
\* The attempts (1) and delays (0) of a trace, in order.
IsDelay(q, i) == q[i] = "delay"
DelaysBefore(q, i) == Cardinality({j \in 1..i : IsDelay(q, j)})

\* The values calculate_delay(k) can return on the policy of the call-site.
LibraryDelays(k) == {calculate_delay(policy, U32(0, k), r) : r \in Draws}

\* C32: in one call no delay precedes the first attempt, exactly one delay
\* separates two consecutive attempts, the delay awaited before attempt
\* k+1 is calculate_delay(k) on the call-site's policy, and a call that has
\* returned awaited no delay after its last attempt.
C32_DelaysBetweenAttempts ==
    \A t \in Tasks : PolicyCall(t) =>
        LET q == trace[t]
        IN /\ q # <<>> => q[1] = "net"
           /\ \A i \in 1..Len(q) :
                 /\ (i > 1 /\ q[i] = "net") => q[i - 1] = "delay"
                 /\ (i > 1 /\ q[i] = "delay") => q[i - 1] = "net"
           /\ (pc[t] = "done" /\ q # <<>>) => Last(q) = "net"
           /\ Len(slept[t]) = DelaysBefore(q, Len(q))
           /\ \A k \in 1..Len(slept[t]) : slept[t][k] \in LibraryDelays(k)

\* A call of max_delay = 150ms without jitter that slept 100 ms and then
\* 150 ms between its three attempts.
C32_Witness ==
    \E t \in Tasks :
        /\ PolicyCall(t) /\ pc[t] = "done"
        /\ trace[t] = <<"net", "delay", "net", "delay", "net">>
        /\ slept[t] = <<100, 150>>

\* C33: every call of a method whose retry literal was accepted issues at
\* least one transport attempt and never returns "Retry loop completed
\* without successful response".
C33_AtLeastOneAttempt ==
    \A t \in Tasks :
        (parsed = "ok" /\ PolicyCall(t) /\ pc[t] = "done") =>
            /\ sent[t] >= 1
            /\ result[t].tag # "no_response"

\* What holds instead: the loop is empty exactly for max_attempts = 0.
NoAttemptOnlyForZero ==
    \A t \in Tasks :
        (parsed = "ok" /\ PolicyCall(t) /\ pc[t] = "done") =>
            (result[t].tag = "no_response" <=> policy.max_attempts = 0)

\* C35: under a transport that answers every attempt, a call that has
\* started returns: the retry loop does not run forever.
C35_CallReturns ==
    \A t \in Solo : (pc[t] # "idle") ~> (pc[t] = "done")

\* A call that returned after max_attempts = 3 attempts, all of them
\* failed by the transport.
C35_Witness ==
    \E t \in Solo :
        /\ PolicyCall(t) /\ pc[t] = "done"
        /\ replies[t] = <<TransportFailure, TransportFailure,
                          TransportFailure>>

\* ---- C37: the two copies of the retry arithmetic
\* C37: on every policy without jitter and every attempt number the
\* calculate_retry_delay of the generated code returns the milliseconds
\* RetryPolicy::calculate_delay returns, and the generated
\* should_retry_response answers as RetryPolicy::should_retry_status does
\* on every status code.
C37_CopiesAgree ==
    /\ (ret.op = "calculate_retry_delay" /\ policy.jitter_ratio = 0) =>
          ret.ms = calculate_delay(policy, ret.n, ret.draw)
    /\ ret.op = "should_retry_response" =>
          ret.flag = should_retry_status(policy, ret.status)

\* The generated copy asked for the delay of the third attempt on a policy
\* without jitter whose cap is not reached: base_delay * base ^ 2.
C37_Witness ==
    /\ ret.op = "calculate_retry_delay"
    /\ policy.jitter_ratio = 0
    /\ policy.exponential_base = 2 * BaseDen
    /\ policy.base_delay_ms = 100 /\ policy.max_delay_ms = 1000
    /\ ret.n = U32(0, 3)
    /\ ret.ms = 400

\* ---- C34: after-hooks and the terminal response
\* The after-hook events of a trace, in order.
IsAfterHook(e) == e \in {"m_after", "g_after"}
AfterHooksRun(t) == SelectSeq(trace[t], IsAfterHook)
\* The after-hooks registered for the call, in the order of the pipeline.
AfterHooksDue(d) ==
    (IF d.hasM THEN <<"m_after">> ELSE <<>>) \o
    (IF d.hasG THEN <<"g_after">> ELSE <<>>)
\* The status of the call's last response was turned into its result.
StatusTurned(t) ==
    \/ pc[t] = "body"
    \/ pc[t] = "done" /\ result[t].tag \in
          {"success", "http_status", "decode", "read_body"}

AfterHooksAround(t) ==
    /\ StatusTurned(t) => AfterHooksRun(t) = AfterHooksDue(desc[t])
    /\ (replies[t] # <<>> /\ Last(replies[t]) = TransportFailure
          /\ pc[t] = "done") => AfterHooksRun(t) = <<>>

\* C34: the registered after-hooks have run on the terminal response,
\* whatever its status, before the status is turned into the result of the
\* call, and none runs when the call ends with a transport failure.
C34_AfterHooksOnTerminal ==
    \A t \in Tasks :
        desc[t].kind \in {"method", "legacy"} => AfterHooksAround(t)

\* What holds: the pipeline of generate.rs, which lib.rs does not build,
\* keeps the claim.
LegacyAfterHooks ==
    \A t \in Tasks : desc[t].kind = "legacy" => AfterHooksAround(t)

\* ---- C36: concurrent calls and their attempt counts
\* The attempts of the call were decided by its own outcomes alone: every
\* answer but the last was due for a retry under the call's own policy, and
\* the last one of a call that left its loop was not.
OwnGate(t) ==
    /\ \A i \in 1..Len(replies[t]) :
          i < Len(replies[t]) => RetryDue(t, replies[t][i], i - 1)
    /\ (pc[t] \in LoopLeft /\ replies[t] # <<>>) =>
          ~RetryDue(t, Last(replies[t]), Len(replies[t]) - 1)

\* C36: of calls that run concurrently on one client each counts its own
\* attempts: a step of one call changes neither the index nor the number
\* of attempts of another, every call's attempts are decided by its own
\* outcomes and policy, and each call stays within its max_attempts.
C36_OwnAttempts ==
    [][\A t \in Tasks : PolicyCall(t) =>
          /\ sent[t] <= desc[t].maxAttempts
          /\ pc[t] = "net" => sent[t] = attempt[t] + 1
          /\ OwnGate(t)
          /\ (\E u \in Tasks \ {t} : pc'[u] # pc[u]) =>
                /\ attempt'[t] = attempt[t]
                /\ sent'[t] = sent[t]]_vars

\* Two calls in flight at once, one in its second attempt of two, the
\* other in its last attempt of a larger budget.
C36_Witness ==
    \E t, u \in Tasks :
        /\ PolicyCall(t) /\ PolicyCall(u)
        /\ desc[t].maxAttempts = 2 /\ desc[u].maxAttempts = MaxAttemptsBound
        /\ pc[t] = "net" /\ sent[t] = 2
        /\ pc[u] = "net" /\ sent[u] = MaxAttemptsBound

\* ---- C38: positional tokens
\* C38: a template whose tokens are positional keys of the argument list
\* is formatted with every token {paramN} replaced by the value of the
\* argument at position N (from 0, self left out), also when an argument
\* bears the name paramK of another position.
C38_PositionalToken ==
    (CallFormatted /\ WellFormedTarget /\ TokenNames # {}
        /\ TokenNames \subseteq ArgKeys)
    => \A values \in {[k \in TokenNames |-> ValueByPosition(k)]} :
          output = Prefix \o Substituted(template.text, 1, values)

\* An argument bears the positional key of an argument before it: its name
\* is inserted into the map after that key and replaces it.
NamedAsEarlierPosition ==
    \E i, j \in 1..Len(fn_inputs) : i < j /\ fn_inputs[j] = PosKey(i - 1)

\* What does hold: the same for every other argument list, among them the
\* lists in which an argument bears the key of a later position.
PositionalUnlessNamedEarlier == NamedAsEarlierPosition \/ C38_PositionalToken

\* ---- C39: the url cache of the StringPool
\* The template with each {paramI} replaced by the I-th of the params.
PoolKeys(ps) == {PosKey(i - 1) : i \in 1..Len(ps)}
PoolValue(ps, k) == ps[CHOOSE i \in 1..Len(ps) : PosKey(i - 1) = k]
ExpectedUrl(c) ==
    Substituted(c.template, 1, [k \in PoolKeys(c.params) |->
                                   PoolValue(c.params, k)])

\* C39: every call of get_or_cache_url returns its template with each
\* {paramI} replaced by params[I] of that call, whatever calls came before
\* and however calls interleave between lookup and insert.
C39_UrlOfOwnParams ==
    \A t \in Tasks :
        pool[t].stage = "returned" => pool[t].url = ExpectedUrl(pool[t])

\* What does hold: a call that missed the cache returns the url of its own
\* params, and a hit returns the url some call of that template stored.
MissReturnsOwnUrl ==
    \A t \in Tasks :
        pool[t].stage = "returned" =>
            IF pool[t].hit
            THEN \E ps \in PoolParams :
                    pool[t].url =
                        ExpectedUrl([template |-> pool[t].template,
                                     params |-> ps])
            ELSE pool[t].url = ExpectedUrl(pool[t])

====
